---- MODULE Spec2Model ----
(***************************************************************************)
(* A model of the runtime-core renderer (baseCreateRenderer in             *)
(* packages/runtime-core/src/renderer.ts): the patch dispatcher, the       *)
(* element / fragment / component processors, the keyed children diff with *)
(* getSequence, move, unmount and the component update cycle.              *)
(*                                                                         *)
(* Virtual nodes live in an arena (w.vn), a vnode is its index there, so   *)
(* that `n1 === n2`, the in-place assignments `n2.el = n1.el` and the      *)
(* sharing between `children` and `dynamicChildren` are what they are in   *)
(* the source.  Host nodes live in w.kids / w.par / w.kind / w.text /      *)
(* w.attrs, a host node is its index there; 0 is null on both sides.       *)
(* Every host operation and every engine event is appended to w.log.       *)
(***************************************************************************)
EXTENDS Integers, Sequences, FiniteSets, TLC

VARIABLES w, pc, inp, hist

vars == <<w, pc, inp, hist>>

(* ------------------------------ bounds -------------------------------- *)

\* number of distinct keys a diffed list draws from
NumKeys == 5

\* longest child list that is diffed
MaxLen == 4

\* most reactive state changes in a run
MaxState == 3

\* the text contents a node is rendered with
NumTexts == 2

\* most renders of the root after it is mounted
MaxRenders == 1

(* --------------------------- patch flags ------------------------------ *)

TEXT == 1

CLASS == 2

STYLE == 4

PROPS == 8

FULL_PROPS == 16

STABLE_FRAGMENT == 64

KEYED_FRAGMENT == 128

UNKEYED_FRAGMENT == 256

DEV_ROOT_FRAGMENT == 2048

HOISTED == -1

BAIL == -2

\* the two's complement bits of a flag value (JS `&` on a negative flag)
Bits(a) == IF a < 0 THEN a + 4096 ELSE a

\* a & bit # 0
HasBit(a, bit) == (Bits(a) \div bit) % 2 = 1

\* a | bit
BitOr(a, bit) == IF HasBit(a, bit) THEN a ELSE a + bit

(* ----------------------------- sequences ------------------------------ *)

\* 0-based access, as the source indexes its arrays
At(seq, i) == seq[i + 1]

SetAt(seq, i, v) == [seq EXCEPT ![i + 1] = v]

Without(seq, x) == SelectSeq(seq, LAMBDA y : y # x)

Has(seq, x) == \E i \in 1..Len(seq) : seq[i] = x

IndexOf(seq, x) == CHOOSE i \in 1..Len(seq) : seq[i] = x

\* the function f on 1..n as the sequence <<f[1], ..., f[n]>>
AsSeq(f) == SubSeq(f, 1, Len(f))

InsertAt(seq, pos, x) == SubSeq(seq, 1, pos - 1) \o <<x>> \o SubSeq(seq, pos, Len(seq))

EmptyProps == [x \in {} |-> 0]

\* props[key], undefined (0) when the key is absent
Get(props, key) == IF key \in DOMAIN props THEN props[key] ELSE 0

\* the order `for (const key in props)` visits the keys in
PropOrder == <<"class", "style", "id", "value">>

\* An exception in flight is w.thrown: from the throw until the caller of the
\* pass has it, no statement of the engine runs; every host operation, every
\* call of one engine function by another and every log entry is skipped.
Log(w0, op, a, b) ==
    IF w0.thrown THEN w0 ELSE [w0 EXCEPT !.log = Append(@, <<op, a, b>>)]

Count(log, op) == Cardinality({i \in 1..Len(log) : log[i][1] = op})

(* ------------------------- host operations ---------------------------- *)

\* the host node the next create call returns
NextEl(w0) == Len(w0.kids) + 1

hostCreate(w0, kind, text) ==
    IF w0.thrown THEN w0 ELSE
    [w0 EXCEPT !.kids = Append(@, <<>>),
               !.par = Append(@, 0),
               !.kind = Append(@, kind),
               !.text = Append(@, text),
               !.attrs = Append(@, EmptyProps),
               !.log = Append(@, <<"create", NextEl(w0), 0>>)]

hostCreateElement(w0, tag) == hostCreate(w0, tag, 0)

hostCreateText(w0, text) == hostCreate(w0, "#text", text)

hostCreateComment(w0, text) == hostCreate(w0, "#comment", text)

hostParentNode(w0, el) == IF el = 0 THEN 0 ELSE w0.par[el]

hostNextSibling(w0, el) ==
    IF el = 0 \/ w0.par[el] = 0 THEN 0
    ELSE LET sibs == w0.kids[w0.par[el]]
             i == IndexOf(sibs, el)
         IN  IF i < Len(sibs) THEN sibs[i + 1] ELSE 0

\* insertBefore: the node leaves its old parent first; an anchor that is not
\* a child of the parent makes the host throw (w.err)
hostInsert(w0, el, parent, anchor) ==
    IF w0.thrown THEN w0 ELSE
    IF el = 0 \/ parent = 0 THEN [w0 EXCEPT !.err = TRUE]
    ELSE IF anchor = el THEN Log(w0, "insert", el, parent)
    ELSE LET p0 == w0.par[el]
             k1 == IF p0 = 0 THEN w0.kids ELSE [w0.kids EXCEPT ![p0] = Without(@, el)]
             sibs == k1[parent]
             pos == IF anchor = 0 THEN Len(sibs) + 1 ELSE IndexOf(sibs, anchor)
         IN  IF anchor # 0 /\ ~Has(sibs, anchor) THEN [w0 EXCEPT !.err = TRUE]
             ELSE [w0 EXCEPT !.kids = [k1 EXCEPT ![parent] = InsertAt(sibs, pos, el)],
                             !.par = [@ EXCEPT ![el] = parent],
                             !.log = Append(@, <<"insert", el, parent>>)]

hostRemove(w0, el) ==
    IF w0.thrown THEN w0 ELSE
    IF el = 0 THEN [w0 EXCEPT !.err = TRUE]
    ELSE LET p0 == w0.par[el]
         IN  IF p0 = 0 THEN Log(w0, "remove", el, 0)
             ELSE [w0 EXCEPT !.kids = [@ EXCEPT ![p0] = Without(@, el)],
                             !.par = [@ EXCEPT ![el] = 0],
                             !.log = Append(@, <<"remove", el, p0>>)]

hostSetText(w0, el, text) ==
    IF w0.thrown THEN w0 ELSE
    [w0 EXCEPT !.text = [@ EXCEPT ![el] = text],
               !.log = Append(@, <<"setText", el, text>>)]

\* textContent = text: the children go, the text stays
hostSetElementText(w0, el, text) ==
    IF w0.thrown THEN w0 ELSE
    [w0 EXCEPT !.par = AsSeq([x \in DOMAIN @ |-> IF @[x] = el THEN 0 ELSE @[x]]),
               !.kids = [@ EXCEPT ![el] = <<>>],
               !.text = [@ EXCEPT ![el] = text],
               !.log = Append(@, <<"setElementText", el, text>>)]

hostPatchProp(w0, el, key, next) ==
    IF w0.thrown THEN w0 ELSE
    [w0 EXCEPT !.attrs = [@ EXCEPT ![el] =
                   [k \in (IF next = 0 THEN DOMAIN @ \ {key} ELSE DOMAIN @ \cup {key}) |->
                       IF k = key THEN next ELSE @[k]]],
               !.log = Append(@, <<"patchProp", el, key>>)]

\* static content is two host nodes: the first and the last of the blob; the
\* operation is optional, and calling it when the host does not provide it
\* throws (a TypeError)
hostInsertStaticContent(w0, content, parent, anchor) ==
    IF ~w0.staticOp THEN [w0 EXCEPT !.thrown = TRUE] ELSE
    LET a == NextEl(w0)
        w1 == hostCreate(hostCreate(w0, "#static", content), "#static", content)
    IN  hostInsert(hostInsert(w1, a, parent, anchor), a + 1, parent, anchor)

(* ------------------------------ vnodes -------------------------------- *)

\* a fresh vnode: el, anchor and component unset
VNode(type, tag, key, props, ckind, text, children, patchFlag, hasDyn, dyn, dynamicProps) ==
    [type |-> type, tag |-> tag, key |-> key, props |-> props, ckind |-> ckind,
     text |-> text, children |-> children, patchFlag |-> patchFlag,
     hasDyn |-> hasDyn, dyn |-> dyn, dynamicProps |-> dynamicProps,
     pref |-> 0, el |-> 0, anchor |-> 0, component |-> 0]

\* the identity of the props object a vnode holds (`n.props || EMPTY_OBJ`):
\* 0 is EMPTY_OBJ, pref > 0 a props object shared between vnodes, and a vnode
\* created with props of its own holds an object no other vnode holds
PropsRef(w0, id) ==
    IF w0.vn[id].props = EmptyProps THEN 0
    ELSE IF w0.vn[id].pref > 0 THEN w0.vn[id].pref ELSE 0 - id

\* the arena index the next allocated vnode gets
NextVn(w0) == Len(w0.vn) + 1

alloc(w0, v) == [w0 EXCEPT !.vn = Append(@, v)]

isSameVNodeType(a, b) == a.type = b.type /\ a.tag = b.tag /\ a.key = b.key

\* cloneIfMounted / normalizeVNode of a vnode child: the child itself while it
\* is not mounted, a copy (el and all) once it is
cloneId(w0, id) == IF w0.vn[id].el = 0 THEN id ELSE NextVn(w0)

cloneW(w0, id) == IF w0.vn[id].el = 0 THEN w0 ELSE alloc(w0, w0.vn[id])

RECURSIVE call(_, _)

(* ------------------------------- hooks -------------------------------- *)

\* enqueueJob: idempotent by job id (the id of an update job is its instance's uid)
queueJob(w0, uid) ==
    IF Has(w0.queue, uid) THEN w0
    ELSE Log([w0 EXCEPT !.queue = Append(@, uid)], "queueJob", uid, 0)

\* a toggle that leaves recursion allowed
toggleRecurseAlways(w0, uid, allowed) == [w0 EXCEPT !.inst[uid].allowRecurse = TRUE]

\* effect.allowRecurse = update.allowRecurse = allowed
toggleRecurse(w0, uid, allowed) == [w0 EXCEPT !.inst[uid].allowRecurse = allowed]

\* most state changes the hooks of an instance make
MaxHookChanges == 2

\* a hook changes state its instance's render depends on.  `active` says that
\* the instance's effect is the one running: the trigger then reaches the
\* scheduler only if the effect allows recursion
changeState(w0, uid, active) ==
    LET changed == Log([w0 EXCEPT !.inst[uid].state = @ + 1], "change", uid, 0)
    IN  IF (active /\ ~w0.inst[uid].allowRecurse) \/ ~w0.inst[uid].updateActive
        THEN changed
        ELSE queueJob(changed, uid)

\* a hook calls render on the root container
doRenderAgain(w0, uid) == call(w0, <<"renderAgain", uid>>)

\* a hook of the instance runs on the world as it is when the hook is reached:
\* the log has <<"hook", name, uid>>.  A hook of a
\* Hooky component notes what allowRecurse is, and changes state if it is one
\* of w0.hookChanges; the beforeMount hook of a Poker component changes state
\* that the render of the instance created before it depends on; the mounted
\* hook of an Again component and the beforeMount hook of an Early component
\* call render on the root container, once
invokeHook(w0, name, uid, active) ==
    LET hooked == Log(w0, "hook", name, uid)
        noted == Log(hooked, "allowRecurse", uid, w0.inst[uid].allowRecurse)
        poke == w0.inst[uid].type = "Poker" /\ name = "bm" /\ uid > 1
        again ==
            /\ \/ w0.inst[uid].type = "Again" /\ name = "m"
               \/ w0.inst[uid].type = "Early" /\ name = "bm"
            /\ \A k \in 1..Len(w0.log) : w0.log[k][1] # "renderAgain"
    IN  IF w0.thrown THEN w0
        ELSE IF again THEN doRenderAgain(hooked, uid)
        ELSE IF poke /\ w0.inst[uid - 1].state < MaxHookChanges
        THEN changeState(hooked, uid - 1, FALSE)
        ELSE IF w0.inst[uid].type # "Hooky" THEN hooked
        ELSE IF name \in w0.hookChanges /\ w0.inst[uid].state < MaxHookChanges
        THEN changeState(noted, uid, active)
        ELSE noted

(* ----------------------------- renderer ------------------------------- *)

\* The functions of the renderer call one another recursively; a call from one
\* to another goes through `call`, which dispatches on the callee's name.
doPatch(w0, n1, n2, container, anchor, parentComponent, optimized) ==
    call(w0, <<"patch", n1, n2, container, anchor, parentComponent, optimized>>)

doMountChildren(w0, owner, container, anchor, parentComponent, optimized, start) ==
    call(w0, <<"mountChildren", owner, container, anchor, parentComponent, optimized, start>>)

doUnmount(w0, vnode, parentComponent, doRemove, optimized) ==
    call(w0, <<"unmount", vnode, parentComponent, doRemove, optimized>>)

doUnmountChildren(w0, children, parentComponent, doRemove, optimized, start) ==
    call(w0, <<"unmountChildren", children, parentComponent, doRemove, optimized, start>>)

doMove(w0, vnode, container, anchor) == call(w0, <<"move", vnode, container, anchor>>)

doMoveChildren(w0, children, container, anchor, i) ==
    call(w0, <<"moveChildren", children, container, anchor, i>>)

doPatchChildren(w0, n1, n2, container, anchor, parentComponent, optimized) ==
    call(w0, <<"patchChildren", n1, n2, container, anchor, parentComponent, optimized>>)

doPatchBlockChildren(w0, oldChildren, newChildren, fallbackContainer, parentComponent, i) ==
    call(w0, <<"patchBlockChildren", oldChildren, newChildren, fallbackContainer,
               parentComponent, i>>)

doUnmountComponent(w0, uid, doRemove) == call(w0, <<"unmountComponent", uid, doRemove>>)

doRender(w0, vnode) == call(w0, <<"render", vnode>>)

doFlushJobs(w0) == call(w0, <<"flushJobs">>)

doFlushPostFlushCbs(w0) == call(w0, <<"flushPostFlushCbs">>)

\* __DEV__ && isHmrUpdating: a hot reload is in progress
hmrUpdating(w0) == w0.dev /\ w0.hmr

\* patch called without `optimized`: the default is
\* __DEV__ && isHmrUpdating ? false : !!n2.dynamicChildren
patchDefault(w0, n1, n2, container, anchor, parentComponent) ==
    doPatch(w0, n1, n2, container, anchor, parentComponent,
            IF hmrUpdating(w0) THEN FALSE ELSE w0.vn[n2].hasDyn)

RECURSIVE getNextHostNode(_, _)

\* the next host node taken after vnode.el, the anchor of a fragment ignored
getNextHostNodeOfEl(w0, vnode) ==
    IF w0.vn[vnode].type = "Component"
    THEN getNextHostNode(w0, w0.inst[w0.vn[vnode].component].subTree)
    ELSE hostNextSibling(w0, w0.vn[vnode].el)

getNextHostNode(w0, vnode) ==
    IF w0.vn[vnode].type = "Component"
    THEN getNextHostNode(w0, w0.inst[w0.vn[vnode].component].subTree)
    ELSE hostNextSibling(w0, IF w0.vn[vnode].anchor # 0 THEN w0.vn[vnode].anchor
                             ELSE w0.vn[vnode].el)

\* a text patch that sets the text whether it changed or not
processTextAlways(w0, n1, n2, container, anchor) ==
    IF n1 = 0
    THEN hostInsert([hostCreateText(w0, w0.vn[n2].text) EXCEPT !.vn[n2].el = NextEl(w0)],
                    NextEl(w0), container, anchor)
    ELSE hostSetText([w0 EXCEPT !.vn[n2].el = w0.vn[n1].el], w0.vn[n1].el, w0.vn[n2].text)

processText(w0, n1, n2, container, anchor) ==
    IF n1 = 0
    THEN hostInsert([hostCreateText(w0, w0.vn[n2].text) EXCEPT !.vn[n2].el = NextEl(w0)],
                    NextEl(w0), container, anchor)
    ELSE IF w0.vn[n2].text # w0.vn[n1].text
    THEN hostSetText([w0 EXCEPT !.vn[n2].el = w0.vn[n1].el], w0.vn[n1].el, w0.vn[n2].text)
    ELSE [w0 EXCEPT !.vn[n2].el = w0.vn[n1].el]

\* a comment patch that creates a host node each time
processCommentNodeRecreate(w0, n1, n2, container, anchor) ==
    hostInsert([hostCreateComment(w0, w0.vn[n2].text) EXCEPT !.vn[n2].el = NextEl(w0)],
               NextEl(w0), container, anchor)

processCommentNode(w0, n1, n2, container, anchor) ==
    IF n1 = 0
    THEN hostInsert([hostCreateComment(w0, w0.vn[n2].text) EXCEPT !.vn[n2].el = NextEl(w0)],
                    NextEl(w0), container, anchor)
    ELSE [w0 EXCEPT !.vn[n2].el = w0.vn[n1].el]

\* [n2.el, n2.anchor] = hostInsertStaticContent!(n2.children, container, anchor)
mountStaticNode(w0, n2, container, anchor) ==
    LET assign(x) ==
            IF x.thrown THEN x
            ELSE [x EXCEPT !.vn[n2].el = NextEl(w0), !.vn[n2].anchor = NextEl(w0) + 1]
    IN  assign(hostInsertStaticContent(w0, w0.vn[n2].text, container, anchor))

RECURSIVE removeRange(_, _, _)
\* while (el && el !== anchor) { next = hostNextSibling(el); hostRemove(el); el = next }
removeRange(w0, el, anchor) ==
    IF el # 0 /\ el # anchor
    THEN removeRange(hostRemove(w0, el), hostNextSibling(w0, el), anchor)
    ELSE w0

removeStaticNode(w0, vnode) ==
    hostRemove(removeRange(w0, w0.vn[vnode].el, w0.vn[vnode].anchor), w0.vn[vnode].anchor)

RECURSIVE moveRange(_, _, _, _, _)
\* while (el && el !== anchor) { next = hostNextSibling(el); hostInsert(el, ...); el = next }
moveRange(w0, el, anchor, container, nextSibling) ==
    IF el # 0 /\ el # anchor
    THEN moveRange(hostInsert(w0, el, container, nextSibling), hostNextSibling(w0, el),
                   anchor, container, nextSibling)
    ELSE w0

moveStaticNode(w0, vnode, container, nextSibling) ==
    hostInsert(moveRange(w0, w0.vn[vnode].el, w0.vn[vnode].anchor, container, nextSibling),
               w0.vn[vnode].anchor, container, nextSibling)

\* Dev / HMR only
patchStaticNode(w0, n1, n2, container) ==
    LET assign(x) ==
            IF x.thrown THEN x
            ELSE [x EXCEPT !.vn[n2].el = NextEl(w0), !.vn[n2].anchor = NextEl(w0) + 1]
    IN  IF w0.vn[n2].text # w0.vn[n1].text
        THEN assign(hostInsertStaticContent(removeStaticNode(w0, n1), w0.vn[n2].text,
                                            container, hostNextSibling(w0, w0.vn[n1].anchor)))
        ELSE [w0 EXCEPT !.vn[n2].el = w0.vn[n1].el, !.vn[n2].anchor = w0.vn[n1].anchor]

RECURSIVE mountProps(_, _, _, _)
\* for (const key in props) if (key !== 'value') hostPatchProp(el, key, null, props[key])
mountProps(w0, el, props, i) ==
    IF i > Len(PropOrder) THEN w0
    ELSE IF PropOrder[i] \in DOMAIN props /\ PropOrder[i] # "value"
    THEN mountProps(hostPatchProp(w0, el, PropOrder[i], props[PropOrder[i]]), el, props, i + 1)
    ELSE mountProps(w0, el, props, i + 1)

\* if ('value' in props) hostPatchProp(el, 'value', prev, props.value)
patchValue(w0, el, props) ==
    IF "value" \in DOMAIN props THEN hostPatchProp(w0, el, "value", props["value"]) ELSE w0

mountElement(w0, vnode, container, anchor, parentComponent, optimized) ==
    LET el == NextEl(w0)
        v == w0.vn[vnode]
        children(x) ==
            IF v.ckind = "text" THEN hostSetElementText(x, el, v.text)
            ELSE IF v.ckind = "array"
            THEN doMountChildren(x, vnode, el, 0, parentComponent, optimized, 0)
            ELSE x
    IN  hostInsert(
            patchValue(
                mountProps(children([hostCreateElement(w0, v.tag) EXCEPT !.vn[vnode].el = el]),
                           el, v.props, 1),
                el, v.props),
            el, container, anchor)

\* c2[i] = optimized ? cloneIfMounted(c2[i]) : normalizeVNode(c2[i]): the child
\* at index i of the children array of `owner` is replaced, in the array, by
\* its clone when it is already mounted
normalizeChild(w0, owner, i) ==
    [cloneW(w0, At(w0.vn[owner].children, i))
        EXCEPT !.vn[owner].children = SetAt(@, i, cloneId(w0, At(w0.vn[owner].children, i)))]

\* the children array of `owner`, from index `start` on
mountChildren(w0, owner, container, anchor, parentComponent, optimized, start) ==
    LET mountChild(x) ==
            doPatch(x, 0, At(x.vn[owner].children, start), container, anchor,
                    parentComponent, optimized)
    IN  IF start >= Len(w0.vn[owner].children) THEN w0
        ELSE doMountChildren(mountChild(normalizeChild(w0, owner, start)), owner, container,
                             anchor, parentComponent, optimized, start + 1)

RECURSIVE removedProps(_, _, _, _, _)
\* for (const key in oldProps) if (!(key in newProps)) hostPatchProp(el, key, old, null)
removedProps(w0, el, oldProps, newProps, i) ==
    IF i > Len(PropOrder) THEN w0
    ELSE IF PropOrder[i] \in DOMAIN oldProps /\ PropOrder[i] \notin DOMAIN newProps
    THEN removedProps(hostPatchProp(w0, el, PropOrder[i], 0), el, oldProps, newProps, i + 1)
    ELSE removedProps(w0, el, oldProps, newProps, i + 1)

RECURSIVE changedProps(_, _, _, _, _)
\* for (const key in newProps) if (next !== prev && key !== 'value') hostPatchProp(...)
changedProps(w0, el, oldProps, newProps, i) ==
    IF i > Len(PropOrder) THEN w0
    ELSE IF PropOrder[i] \in DOMAIN newProps
            /\ newProps[PropOrder[i]] # Get(oldProps, PropOrder[i])
            /\ PropOrder[i] # "value"
    THEN changedProps(hostPatchProp(w0, el, PropOrder[i], newProps[PropOrder[i]]), el,
                      oldProps, newProps, i + 1)
    ELSE changedProps(w0, el, oldProps, newProps, i + 1)

\* the full prop diff; oldRef / newRef are the identities of the two objects
patchProps(w0, el, oldProps, newProps, oldRef, newRef) ==
    LET removed(x) == IF oldRef # 0 THEN removedProps(x, el, oldProps, newProps, 1) ELSE x
    IN  IF oldRef # newRef
        THEN patchValue(changedProps(removed(Log(w0, "patchProps", el, 0)), el, oldProps,
                                     newProps, 1),
                        el, newProps)
        ELSE Log(w0, "patchProps", el, 0)

RECURSIVE dynamicPropsLoop(_, _, _, _, _, _)
\* the loop without the exception made for 'value'
dynamicPropsLoopChangedOnly(w0, el, keys, oldProps, newProps, i) ==
    IF i > Len(keys) THEN w0
    ELSE IF Get(newProps, keys[i]) # Get(oldProps, keys[i])
    THEN dynamicPropsLoop(hostPatchProp(w0, el, keys[i], Get(newProps, keys[i])), el, keys,
                          oldProps, newProps, i + 1)
    ELSE dynamicPropsLoop(w0, el, keys, oldProps, newProps, i + 1)

\* PatchFlags.PROPS: only the keys of n2.dynamicProps
dynamicPropsLoop(w0, el, keys, oldProps, newProps, i) ==
    IF i > Len(keys) THEN w0
    ELSE IF Get(newProps, keys[i]) # Get(oldProps, keys[i]) \/ keys[i] = "value"
    THEN dynamicPropsLoop(hostPatchProp(w0, el, keys[i], Get(newProps, keys[i])), el, keys,
                          oldProps, newProps, i + 1)
    ELSE dynamicPropsLoop(w0, el, keys, oldProps, newProps, i + 1)

\* an element patch that ignores the patch flag and diffs everything
patchElementFullDiff(w0, n1, n2, parentComponent, optimized) ==
    LET el == w0.vn[n1].el
        props(x) ==
            patchProps(x, el, w0.vn[n1].props, w0.vn[n2].props, PropsRef(w0, n1),
                       PropsRef(w0, n2))
    IN  props(doPatchChildren(Log(Log([w0 EXCEPT !.vn[n2].el = el], "patchElement", n2,
                                      optimized),
                                  "patchChildren", n2, 0),
                              n1, n2, el, 0, parentComponent, FALSE))

\* the log entry "patchElement" records the mode the element is patched in, the
\* entries "patchBlockChildren" and "patchChildren" the calls made for the
\* children of n2
patchElement(w0, n1, n2, parentComponent, optimized0) ==
    LET el == w0.vn[n1].el
        a == w0.vn[n1]
        b == w0.vn[n2]
        \* patchFlag |= n1.patchFlag & PatchFlags.FULL_PROPS
        \* if (__DEV__ && isHmrUpdating): HMR updated, force full diff
        patchFlag == IF hmrUpdating(w0) THEN 0
                     ELSE IF HasBit(a.patchFlag, FULL_PROPS) THEN BitOr(b.patchFlag, FULL_PROPS)
                     ELSE b.patchFlag
        optimized == IF hmrUpdating(w0) THEN FALSE ELSE optimized0
        dynamicChildren == IF hmrUpdating(w0) THEN FALSE ELSE b.hasDyn
        children(x) ==
            IF dynamicChildren
            THEN doPatchBlockChildren(Log(x, "patchBlockChildren", n2, 0), a.dyn, b.dyn, el,
                                      parentComponent, 0)
            ELSE IF ~optimized
            THEN doPatchChildren(Log(x, "patchChildren", n2, 0), n1, n2, el, 0,
                                 parentComponent, FALSE)
            ELSE x
        fullProps(x) == patchProps(x, el, a.props, b.props, PropsRef(w0, n1), PropsRef(w0, n2))
        class(x) ==
            IF HasBit(patchFlag, CLASS) /\ Get(a.props, "class") # Get(b.props, "class")
            THEN hostPatchProp(x, el, "class", Get(b.props, "class"))
            ELSE x
        style(x) ==
            IF HasBit(patchFlag, STYLE) THEN hostPatchProp(x, el, "style", Get(b.props, "style"))
            ELSE x
        props(x) ==
            IF HasBit(patchFlag, PROPS)
            THEN dynamicPropsLoop(x, el, b.dynamicProps, a.props, b.props, 1)
            ELSE x
        text(x) ==
            IF HasBit(patchFlag, TEXT) /\ a.text # b.text
            THEN hostSetElementText(x, el, b.text)
            ELSE x
        flagged(x) ==
            IF HasBit(patchFlag, FULL_PROPS) THEN text(fullProps(x))
            ELSE text(props(style(class(x))))
        unflagged(x) == IF ~optimized /\ ~dynamicChildren THEN fullProps(x) ELSE x
        patchProp(x) == IF patchFlag > 0 THEN flagged(x) ELSE unflagged(x)
        \* disable recurse in beforeUpdate hooks
        vnodeHook(x) ==
            IF "onVnodeBeforeUpdate" \notin DOMAIN b.props THEN x
            ELSE IF parentComponent # 0 THEN invokeHook(x, "vbu", parentComponent, TRUE)
            ELSE Log(x, "hook", "vbu", 0)
        beforeUpdate(x) ==
            IF parentComponent # 0
            THEN toggleRecurse(vnodeHook(toggleRecurse(x, parentComponent, FALSE)),
                               parentComponent, TRUE)
            ELSE vnodeHook(x)
    IN  patchProp(children(beforeUpdate(Log([w0 EXCEPT !.vn[n2].el = el], "patchElement", n2,
                                            optimized))))

processElement(w0, n1, n2, container, anchor, parentComponent, optimized) ==
    IF n1 = 0
    THEN mountElement(w0, n2, container, anchor, parentComponent, optimized)
    ELSE patchElement(w0, n1, n2, parentComponent, optimized)

\* patchBlockChildren patching every pair in the block element
patchBlockChildrenNoLookup(w0, oldChildren, newChildren, fallbackContainer, parentComponent, i) ==
    LET oldVNode == At(oldChildren, i)
        newVNode == At(newChildren, i)
        o == w0.vn[oldVNode]
        lookup == FALSE
        container == IF lookup THEN hostParentNode(w0, o.el) ELSE fallbackContainer
        parentNode(x) == IF lookup THEN Log(x, "parentNode", o.el, 0) ELSE x
        paired(x) == Log(parentNode(Log(x, "blockPair", newVNode, oldVNode)),
                         "blockContainer", newVNode, container)
    IN  IF i >= Len(newChildren) THEN w0
        ELSE doPatchBlockChildren(
                 doPatch(paired(w0), oldVNode, newVNode, container, 0, parentComponent, TRUE),
                 oldChildren, newChildren, fallbackContainer, parentComponent, i + 1)

\* patchBlockChildren pairing a new child with an old child of its type and key
patchBlockChildrenByKey(w0, oldChildren, newChildren, fallbackContainer, parentComponent, i) ==
    LET sameType == {j \in 1..Len(oldChildren) :
                        isSameVNodeType(w0.vn[oldChildren[j]], w0.vn[At(newChildren, i)])}
        oldVNode == IF sameType # {} THEN oldChildren[CHOOSE j \in sameType : TRUE]
                    ELSE At(oldChildren, i)
        newVNode == At(newChildren, i)
        o == w0.vn[oldVNode]
        lookup == o.el # 0
                     /\ (o.type = "Fragment"
                         \/ ~isSameVNodeType(o, w0.vn[newVNode])
                         \/ o.type = "Component")
        container == IF lookup THEN hostParentNode(w0, o.el) ELSE fallbackContainer
        parentNode(x) == IF lookup THEN Log(x, "parentNode", o.el, 0) ELSE x
        paired(x) == Log(parentNode(Log(x, "blockPair", newVNode, oldVNode)),
                         "blockContainer", newVNode, container)
    IN  IF i >= Len(newChildren) THEN w0
        ELSE doPatchBlockChildren(
                 doPatch(paired(w0), oldVNode, newVNode, container, 0, parentComponent, TRUE),
                 oldChildren, newChildren, fallbackContainer, parentComponent, i + 1)

\* pairwise by index, never by key; the container is looked up per pair.  The
\* log has <<"blockPair", newVNode, oldVNode>> for each pair, <<"parentNode",
\* el, 0>> for each call of hostParentNode and <<"blockContainer", newVNode,
\* container>> for the container the pair is patched in.
patchBlockChildren(w0, oldChildren, newChildren, fallbackContainer, parentComponent, i) ==
    LET oldVNode == At(oldChildren, i)
        newVNode == At(newChildren, i)
        o == w0.vn[oldVNode]
        lookup == o.el # 0
                     /\ (o.type = "Fragment"
                         \/ ~isSameVNodeType(o, w0.vn[newVNode])
                         \/ o.type = "Component")
        container == IF lookup THEN hostParentNode(w0, o.el) ELSE fallbackContainer
        parentNode(x) == IF lookup THEN Log(x, "parentNode", o.el, 0) ELSE x
        paired(x) == Log(parentNode(Log(x, "blockPair", newVNode, oldVNode)),
                         "blockContainer", newVNode, container)
    IN  IF i >= Len(newChildren) THEN w0
        ELSE doPatchBlockChildren(
                 doPatch(paired(w0), oldVNode, newVNode, container, 0, parentComponent, TRUE),
                 oldChildren, newChildren, fallbackContainer, parentComponent, i + 1)

(* --------------------------- getSequence ------------------------------ *)

RECURSIVE gsSearch(_, _, _, _, _)
\* while (u < v) { c = (u + v) >> 1; if (arr[result[c]] < arrI) u = c + 1 else v = c }
gsSearch(arr, result, arrI, u, v) ==
    IF u < v
    THEN IF At(arr, At(result, (u + v) \div 2)) < arrI
         THEN gsSearch(arr, result, arrI, (u + v) \div 2 + 1, v)
         ELSE gsSearch(arr, result, arrI, u, (u + v) \div 2)
    ELSE u

RECURSIVE gsScan(_, _, _, _)
\* for (i = 0; i < len; i++): p and result after the scan
gsScan(arr, p, result, i) ==
    LET arrI == At(arr, i)
        j == At(result, Len(result) - 1)
        replace(u) ==
            IF arrI < At(arr, At(result, u))
            THEN gsScan(arr, IF u > 0 THEN SetAt(p, i, At(result, u - 1)) ELSE p,
                        SetAt(result, u, i), i + 1)
            ELSE gsScan(arr, p, result, i + 1)
    IN  IF i >= Len(arr) THEN [p |-> p, result |-> result]
        ELSE IF arrI = 0 THEN gsScan(arr, p, result, i + 1)
        ELSE IF At(arr, j) < arrI
        THEN gsScan(arr, SetAt(p, i, j), Append(result, i), i + 1)
        ELSE replace(gsSearch(arr, result, arrI, 0, Len(result) - 1))

RECURSIVE gsBack(_, _, _, _)
\* while (u-- > 0) { result[u] = v; v = p[v] }
gsBack(p, result, u, v) ==
    IF u > 0
    THEN gsBack(p, SetAt(result, u - 1, v), u - 1, IF u - 1 > 0 THEN At(p, v) ELSE 0)
    ELSE result

\* getSequence without the walk back through p
getSequenceNoBacktrack(arr) == gsScan(arr, arr, <<0>>, 0).result

getSequence(arr) ==
    LET back(r) == gsBack(r.p, r.result, Len(r.result), At(r.result, Len(r.result) - 1))
    IN  back(gsScan(arr, arr, <<0>>, 0))

(* ------------------------ patchKeyedChildren -------------------------- *)

\* In the loops below k holds what stays fixed in a loop: the owners o1 and o2
\* of the two children arrays (c1 = vn[o1].children, c2 = vn[o2].children),
\* container, parentAnchor, parentComponent, optimized, and, in the unknown
\* sequence, s2, e1, e2, toBePatched, keyToNewIndexMap and moved.

RECURSIVE syncFromStart(_, _)
\* a head sync that stops after the first pair
syncFromStartOnce(s, k) ==
    LET step(x) ==
            IF isSameVNodeType(x.vn[At(x.vn[k.o1].children, s.i)],
                               x.vn[At(x.vn[k.o2].children, s.i)])
            THEN [s EXCEPT !.w = doPatch(Log(x, "syncStart", At(x.vn[k.o2].children, s.i),
                                             At(x.vn[k.o1].children, s.i)),
                                         At(x.vn[k.o1].children, s.i),
                                         At(x.vn[k.o2].children, s.i), k.container, 0,
                                         k.parentComponent, k.optimized),
                           !.i = s.i + 1]
            ELSE [s EXCEPT !.w = x]
    IN  IF s.i <= s.e1 /\ s.i <= s.e2
        THEN step(normalizeChild(s.w, k.o2, s.i))
        ELSE s

\* 1. sync from start; the log has <<"syncStart", n2, n1>> for each pair
syncFromStart(s, k) ==
    LET step(x) ==
            IF isSameVNodeType(x.vn[At(x.vn[k.o1].children, s.i)],
                               x.vn[At(x.vn[k.o2].children, s.i)])
            THEN syncFromStart(
                     [s EXCEPT !.w = doPatch(Log(x, "syncStart", At(x.vn[k.o2].children, s.i),
                                                 At(x.vn[k.o1].children, s.i)),
                                             At(x.vn[k.o1].children, s.i),
                                             At(x.vn[k.o2].children, s.i), k.container, 0,
                                             k.parentComponent, k.optimized),
                               !.i = s.i + 1], k)
            ELSE [s EXCEPT !.w = x]
    IN  IF s.i <= s.e1 /\ s.i <= s.e2
        THEN step(normalizeChild(s.w, k.o2, s.i))
        ELSE s

RECURSIVE syncFromEnd(_, _)
\* 2. sync from end; the log has <<"syncEnd", n2, n1>> for each pair
syncFromEnd(s, k) ==
    LET step(x) ==
            IF isSameVNodeType(x.vn[At(x.vn[k.o1].children, s.e1)],
                               x.vn[At(x.vn[k.o2].children, s.e2)])
            THEN syncFromEnd(
                     [s EXCEPT !.w = doPatch(Log(x, "syncEnd", At(x.vn[k.o2].children, s.e2),
                                                 At(x.vn[k.o1].children, s.e1)),
                                             At(x.vn[k.o1].children, s.e1),
                                             At(x.vn[k.o2].children, s.e2), k.container, 0,
                                             k.parentComponent, k.optimized),
                               !.e1 = s.e1 - 1, !.e2 = s.e2 - 1], k)
            ELSE [s EXCEPT !.w = x]
    IN  IF s.i <= s.e1 /\ s.i <= s.e2
        THEN step(normalizeChild(s.w, k.o2, s.e2))
        ELSE s

RECURSIVE mountRest(_, _, _)
\* mountRest inserting before parentAnchor instead of the next child
mountRestAppend(s, k, anchor) ==
    LET step(x) ==
            doPatch(x, 0, At(x.vn[k.o2].children, s.i), k.container, k.parentAnchor,
                    k.parentComponent, k.optimized)
    IN  IF s.i <= s.e2
        THEN mountRest([s EXCEPT !.w = step(normalizeChild(s.w, k.o2, s.i)), !.i = s.i + 1],
                       k, anchor)
        ELSE s

\* 3. common sequence + mount: while (i <= e2) patch(null, c2[i], container, anchor)
mountRest(s, k, anchor) ==
    LET step(x) ==
            doPatch(x, 0, At(x.vn[k.o2].children, s.i), k.container, anchor,
                    k.parentComponent, k.optimized)
    IN  IF s.i <= s.e2
        THEN mountRest([s EXCEPT !.w = step(normalizeChild(s.w, k.o2, s.i)), !.i = s.i + 1],
                       k, anchor)
        ELSE s

RECURSIVE unmountRest(_, _)
\* unmountRest leaving the host nodes where they are
unmountRestKeepsHost(s, k) ==
    IF s.i <= s.e1
    THEN unmountRest([s EXCEPT !.w = doUnmount(s.w, At(s.w.vn[k.o1].children, s.i),
                                               k.parentComponent, FALSE, FALSE),
                               !.i = s.i + 1], k)
    ELSE s

\* 4. common sequence + unmount: while (i <= e1) unmount(c1[i], ..., true)
unmountRest(s, k) ==
    IF s.i <= s.e1
    THEN unmountRest([s EXCEPT !.w = doUnmount(s.w, At(s.w.vn[k.o1].children, s.i),
                                               k.parentComponent, TRUE, FALSE),
                               !.i = s.i + 1], k)
    ELSE s

RECURSIVE buildKeyToNewIndexMap(_, _, _, _, _)
\* 5.1 build key:index map for newChildren; a repeated key is warned about in
\* DEV and the later index wins
buildKeyToNewIndexMap(w0, o2, i, e2, m) ==
    LET keyOf(x) == x.vn[At(x.vn[o2].children, i)].key
        warn(x) == IF x.dev /\ keyOf(x) \in DOMAIN m THEN Log(x, "warn", keyOf(x), 0) ELSE x
        step(x) ==
            IF keyOf(x) # 0
            THEN buildKeyToNewIndexMap(warn(x), o2, i + 1, e2,
                     [y \in DOMAIN m \cup {keyOf(x)} |-> IF y = keyOf(x) THEN i ELSE m[y]])
            ELSE buildKeyToNewIndexMap(x, o2, i + 1, e2, m)
    IN  IF i > e2 THEN [w |-> w0, m |-> m]
        ELSE step(normalizeChild(w0, o2, i))

RECURSIVE findSameType(_, _, _, _, _)
\* findSameType taking a new node whether or not it is matched already
findSameTypeMatched(w0, k, map, prevChild, j) ==
    IF j > k.e2 THEN 0 - 1
    ELSE IF isSameVNodeType(w0.vn[prevChild], w0.vn[At(w0.vn[k.o2].children, j)])
    THEN j
    ELSE findSameType(w0, k, map, prevChild, j + 1)

\* key-less node, try to locate a same type node: the first j in s2..e2 with
\* newIndexToOldIndexMap[j - s2] === 0 and the same type, undefined (-1) if none
findSameType(w0, k, map, prevChild, j) ==
    IF j > k.e2 THEN 0 - 1
    ELSE IF At(map, j - k.s2) = 0
            /\ isSameVNodeType(w0.vn[prevChild], w0.vn[At(w0.vn[k.o2].children, j)])
    THEN j
    ELSE findSameType(w0, k, map, prevChild, j + 1)

RECURSIVE patchOld(_, _)
\* patchOld leaving the old children without a match mounted
patchOldKeepsStale(s, k) ==
    LET prevChild == At(s.w.vn[k.o1].children, s.i)
        key == s.w.vn[prevChild].key
        step(newIndex) ==
            IF s.patched >= k.toBePatched \/ newIndex = 0 - 1
            THEN patchOld([s EXCEPT !.i = s.i + 1], k)
            ELSE patchOld([s EXCEPT
                    !.newIndexToOldIndexMap = SetAt(@, newIndex - k.s2, s.i + 1),
                    !.maxNewIndexSoFar = IF newIndex >= @ THEN newIndex ELSE @,
                    !.moved = @ \/ newIndex < s.maxNewIndexSoFar,
                    !.w = doPatch(s.w, prevChild, At(s.w.vn[k.o2].children, newIndex),
                                  k.container, 0, k.parentComponent, k.optimized),
                    !.patched = s.patched + 1,
                    !.i = s.i + 1], k)
    IN  IF s.i > k.e1 THEN s
        ELSE step(IF key # 0
                  THEN (IF key \in DOMAIN k.keyToNewIndexMap
                        THEN k.keyToNewIndexMap[key] ELSE 0 - 1)
                  ELSE findSameType(s.w, k, s.newIndexToOldIndexMap, prevChild, k.s2))

\* 5.2 loop through old children left to be patched and try to patch matching
\* nodes and remove nodes that are no longer present
patchOld(s, k) ==
    LET prevChild == At(s.w.vn[k.o1].children, s.i)
        key == s.w.vn[prevChild].key
        step(newIndex) ==
            IF s.patched >= k.toBePatched \/ newIndex = 0 - 1
            THEN patchOld([s EXCEPT !.w = doUnmount(s.w, prevChild, k.parentComponent, TRUE,
                                                    FALSE),
                                    !.i = s.i + 1], k)
            ELSE patchOld([s EXCEPT
                    !.newIndexToOldIndexMap = SetAt(@, newIndex - k.s2, s.i + 1),
                    !.maxNewIndexSoFar = IF newIndex >= @ THEN newIndex ELSE @,
                    !.moved = @ \/ newIndex < s.maxNewIndexSoFar,
                    !.w = doPatch(s.w, prevChild, At(s.w.vn[k.o2].children, newIndex),
                                  k.container, 0, k.parentComponent, k.optimized),
                    !.patched = s.patched + 1,
                    !.i = s.i + 1], k)
    IN  IF s.i > k.e1 THEN s
        ELSE step(IF key # 0
                  THEN (IF key \in DOMAIN k.keyToNewIndexMap
                        THEN k.keyToNewIndexMap[key] ELSE 0 - 1)
                  ELSE findSameType(s.w, k, s.newIndexToOldIndexMap, prevChild, k.s2))

RECURSIVE moveAndMount(_, _, _, _)
\* moveAndMount anchoring every move and mount at parentAnchor
moveAndMountAtEnd(s, k, map, seq) ==
    LET nextChild == At(s.w.vn[k.o2].children, k.s2 + s.i)
    IN  IF s.i < 0 THEN s
        ELSE IF At(map, s.i) = 0
        THEN moveAndMount([s EXCEPT !.w = doPatch(s.w, 0, nextChild, k.container,
                                                  k.parentAnchor, k.parentComponent,
                                                  k.optimized),
                                    !.i = s.i - 1], k, map, seq)
        ELSE IF k.moved
        THEN (IF s.j < 0 \/ s.i # At(seq, s.j)
              THEN moveAndMount([s EXCEPT !.w = doMove(s.w, nextChild, k.container,
                                                       k.parentAnchor),
                                          !.i = s.i - 1], k, map, seq)
              ELSE moveAndMount([s EXCEPT !.j = s.j - 1, !.i = s.i - 1], k, map, seq))
        ELSE moveAndMount([s EXCEPT !.i = s.i - 1], k, map, seq)

\* 5.3 move and mount: looping backwards so that the last patched node is the
\* anchor; s.j walks increasingNewIndexSequence from its end
moveAndMount(s, k, map, seq) ==
    LET nextIndex == k.s2 + s.i
        c2 == s.w.vn[k.o2].children
        nextChild == At(c2, nextIndex)
        anchor == IF nextIndex + 1 < Len(c2) THEN s.w.vn[At(c2, nextIndex + 1)].el
                  ELSE k.parentAnchor
    IN  IF s.i < 0 THEN s
        ELSE IF At(map, s.i) = 0
        THEN moveAndMount([s EXCEPT !.w = doPatch(s.w, 0, nextChild, k.container, anchor,
                                                  k.parentComponent, k.optimized),
                                    !.i = s.i - 1], k, map, seq)
        ELSE IF k.moved
        THEN (IF s.j < 0 \/ s.i # At(seq, s.j)
              THEN moveAndMount([s EXCEPT !.w = doMove(s.w, nextChild, k.container, anchor),
                                          !.i = s.i - 1], k, map, seq)
              ELSE moveAndMount([s EXCEPT !.j = s.j - 1, !.i = s.i - 1], k, map, seq))
        ELSE moveAndMount([s EXCEPT !.i = s.i - 1], k, map, seq)

\* 5. unknown sequence
unknownSequence(s0, k0) ==
    LET toBePatched == s0.e2 - s0.i + 1
        k1(m, moved) ==
            [o1 |-> k0.o1, o2 |-> k0.o2, container |-> k0.container,
             parentAnchor |-> k0.parentAnchor, parentComponent |-> k0.parentComponent,
             optimized |-> k0.optimized, s2 |-> s0.i, e1 |-> s0.e1, e2 |-> s0.e2,
             toBePatched |-> toBePatched, keyToNewIndexMap |-> m, moved |-> moved]
        run53(r52, m, increasingNewIndexSequence) ==
            moveAndMount([w |-> r52.w, i |-> toBePatched - 1,
                          j |-> Len(increasingNewIndexSequence) - 1],
                         k1(m, r52.moved), r52.newIndexToOldIndexMap,
                         increasingNewIndexSequence)
        after52(r52, m) ==
            run53(r52, m, IF r52.moved THEN getSequence(r52.newIndexToOldIndexMap) ELSE <<>>)
        after51(r51) ==
            after52(patchOld([w |-> r51.w, i |-> s0.i, patched |-> 0, moved |-> FALSE,
                              maxNewIndexSoFar |-> 0,
                              newIndexToOldIndexMap |-> AsSeq([x \in 1..toBePatched |-> 0])],
                             k1(r51.m, FALSE)),
                    r51.m)
    IN  after51(buildKeyToNewIndexMap(s0.w, k0.o2, s0.i, s0.e2, EmptyProps)).w

\* can be all-keyed or mixed; o1 and o2 own the arrays c1 and c2
patchKeyedChildren(w0, o1, o2, container, parentAnchor, parentComponent, optimized) ==
    LET k == [o1 |-> o1, o2 |-> o2, container |-> container, parentAnchor |-> parentAnchor,
              parentComponent |-> parentComponent, optimized |-> optimized]
        l2 == Len(w0.vn[o2].children)
        rest(s) ==
            IF s.i > s.e1
            THEN (IF s.i <= s.e2
                  THEN mountRest(s, k, IF s.e2 + 1 < l2
                                       THEN s.w.vn[At(s.w.vn[o2].children, s.e2 + 1)].el
                                       ELSE parentAnchor).w
                  ELSE s.w)
            ELSE IF s.i > s.e2
            THEN unmountRest(s, k).w
            ELSE unknownSequence(s, k)
    IN  rest(syncFromEnd(syncFromStart([w |-> w0, i |-> 0,
                                        e1 |-> Len(w0.vn[o1].children) - 1,
                                        e2 |-> l2 - 1], k), k))

(* -------------------------- patchChildren ----------------------------- *)

RECURSIVE patchCommon(_, _, _, _, _, _, _, _)
\* for (i = 0; i < commonLength; i++) patch(c1[i], c2[i], container, null, ...)
patchCommon(w0, o1, o2, container, parentComponent, optimized, i, commonLength) ==
    LET step(x) ==
            doPatch(x, At(x.vn[o1].children, i), At(x.vn[o2].children, i), container, 0,
                    parentComponent, optimized)
    IN  IF i >= commonLength THEN w0
        ELSE patchCommon(step(normalizeChild(w0, o2, i)), o1, o2, container, parentComponent,
                         optimized, i + 1, commonLength)

patchUnkeyedChildren(w0, o1, o2, container, anchor, parentComponent, optimized) ==
    LET oldLength == Len(w0.vn[o1].children)
        newLength == Len(w0.vn[o2].children)
        commonLength == IF oldLength < newLength THEN oldLength ELSE newLength
        rest(x) ==
            IF oldLength > newLength
            THEN doUnmountChildren(x, x.vn[o1].children, parentComponent, TRUE, FALSE,
                                   commonLength)
            ELSE doMountChildren(x, o2, container, anchor, parentComponent, optimized,
                                 commonLength)
    IN  rest(patchCommon(w0, o1, o2, container, parentComponent, optimized, 0, commonLength))

patchChildren(w0, n1, n2, container, anchor, parentComponent, optimized) ==
    LET a == w0.vn[n1]
        b == w0.vn[n2]
        keyed(x) == patchKeyedChildren(x, n1, n2, container, anchor, parentComponent, optimized)
        unmountOld(x) ==
            IF a.ckind = "array"
            THEN doUnmountChildren(x, a.children, parentComponent, FALSE, FALSE, 0)
            ELSE x
        setText(x) ==
            IF a.ckind # "text" \/ b.text # a.text THEN hostSetElementText(x, container, b.text)
            ELSE x
        clearText(x) == IF a.ckind = "text" THEN hostSetElementText(x, container, 0) ELSE x
        mountNew(x) ==
            IF b.ckind = "array"
            THEN doMountChildren(x, n2, container, anchor, parentComponent, optimized, 0)
            ELSE x
    IN  IF b.patchFlag > 0 /\ HasBit(b.patchFlag, KEYED_FRAGMENT) THEN keyed(w0)
        ELSE IF b.patchFlag > 0 /\ HasBit(b.patchFlag, UNKEYED_FRAGMENT)
        THEN patchUnkeyedChildren(w0, n1, n2, container, anchor, parentComponent, optimized)
        ELSE IF b.ckind = "text" THEN setText(unmountOld(w0))
        ELSE IF a.ckind = "array"
        THEN (IF b.ckind = "array" THEN keyed(w0)
              ELSE doUnmountChildren(w0, a.children, parentComponent, TRUE, FALSE, 0))
        ELSE mountNew(clearText(w0))

RECURSIVE traverseStaticChildren(_, _, _, _, _)
\* #2080: the static element children of n2 inherit el from those of n1
traverseStaticChildren(w0, n1, n2, shallow, i) ==
    LET c1 == At(w0.vn[n1].children, i)
        c20 == At(w0.vn[n2].children, i)
        isStaticEl == w0.vn[c20].type = "Element" /\ ~w0.vn[c20].hasDyn
        c2(x) == At(x.vn[n2].children, i)
        inherit(x) ==
            IF isStaticEl /\ w0.vn[c20].patchFlag <= 0
            THEN [normalizeChild(x, n2, i) EXCEPT !.vn[cloneId(x, c20)].el = w0.vn[c1].el]
            ELSE x
        deep(x) ==
            IF isStaticEl /\ ~shallow THEN traverseStaticChildren(x, c1, c2(x), FALSE, 0)
            ELSE x
        comment(x) ==
            IF x.dev /\ x.vn[c2(x)].type = "Comment" /\ x.vn[c2(x)].el = 0
            THEN [x EXCEPT !.vn[c2(x)].el = x.vn[c1].el]
            ELSE x
    IN  IF w0.vn[n1].ckind # "array" \/ w0.vn[n2].ckind # "array"
           \/ i >= Len(w0.vn[n1].children)
        THEN w0
        ELSE IF i >= Len(w0.vn[n2].children) THEN [w0 EXCEPT !.err = TRUE]
        ELSE traverseStaticChildren(comment(deep(inherit(w0))), n1, n2, shallow, i + 1)

\* processFragment without the full diff development builds force on a root
\* fragment
processFragmentNoDevReset(w0, n1, n2, container, anchor, parentComponent, optimized0) ==
    LET b == w0.vn[n2]
        devReset == FALSE
        patchFlag == IF devReset THEN 0 ELSE b.patchFlag
        optimized == IF devReset THEN FALSE ELSE optimized0
        hasDyn == IF devReset THEN FALSE ELSE b.hasDyn
        fragmentStartAnchor == NextEl(w0)
        fragmentEndAnchor == NextEl(w0) + 1
        anchors(x) ==
            hostInsert(hostInsert([x EXCEPT !.vn[n2].el = fragmentStartAnchor,
                                            !.vn[n2].anchor = fragmentEndAnchor],
                                  fragmentStartAnchor, container, anchor),
                       fragmentEndAnchor, container, anchor)
        traverse(x) ==
            IF b.key # 0 \/ (parentComponent # 0 /\ n2 = x.inst[parentComponent].subTree)
            THEN traverseStaticChildren(x, n1, n2, TRUE, 0)
            ELSE x
        update(x) ==
            IF patchFlag > 0 /\ HasBit(patchFlag, STABLE_FRAGMENT) /\ hasDyn /\ w0.vn[n1].hasDyn
            THEN traverse(doPatchBlockChildren(Log(x, "patchBlockChildren", n2, 0),
                                               w0.vn[n1].dyn, b.dyn, container,
                                               parentComponent, 0))
            ELSE doPatchChildren(Log(x, "patchChildren", n2, w0.vn[n1].anchor), n1, n2,
                                 container, w0.vn[n1].anchor, parentComponent, optimized)
    IN  IF n1 = 0
        THEN doMountChildren(anchors(hostCreateText(hostCreateText(w0, 0), 0)), n2, container,
                             fragmentEndAnchor, parentComponent, optimized, 0)
        ELSE update([w0 EXCEPT !.vn[n2].el = w0.vn[n1].el, !.vn[n2].anchor = w0.vn[n1].anchor])

processFragment(w0, n1, n2, container, anchor, parentComponent, optimized0) ==
    LET b == w0.vn[n2]
        devReset == w0.dev /\ (w0.hmr \/ HasBit(b.patchFlag, DEV_ROOT_FRAGMENT))
        patchFlag == IF devReset THEN 0 ELSE b.patchFlag
        optimized == IF devReset THEN FALSE ELSE optimized0
        hasDyn == IF devReset THEN FALSE ELSE b.hasDyn
        fragmentStartAnchor == NextEl(w0)
        fragmentEndAnchor == NextEl(w0) + 1
        anchors(x) ==
            hostInsert(hostInsert([x EXCEPT !.vn[n2].el = fragmentStartAnchor,
                                            !.vn[n2].anchor = fragmentEndAnchor],
                                  fragmentStartAnchor, container, anchor),
                       fragmentEndAnchor, container, anchor)
        traverse(x) ==
            IF b.key # 0 \/ (parentComponent # 0 /\ n2 = x.inst[parentComponent].subTree)
            THEN traverseStaticChildren(x, n1, n2, TRUE, 0)
            ELSE x
        update(x) ==
            IF patchFlag > 0 /\ HasBit(patchFlag, STABLE_FRAGMENT) /\ hasDyn /\ w0.vn[n1].hasDyn
            THEN traverse(doPatchBlockChildren(Log(x, "patchBlockChildren", n2, 0),
                                               w0.vn[n1].dyn, b.dyn, container,
                                               parentComponent, 0))
            ELSE doPatchChildren(Log(x, "patchChildren", n2, w0.vn[n1].anchor), n1, n2,
                                 container, w0.vn[n1].anchor, parentComponent, optimized)
    IN  IF n1 = 0
        THEN doMountChildren(anchors(hostCreateText(hostCreateText(w0, 0), 0)), n2, container,
                             fragmentEndAnchor, parentComponent, optimized, 0)
        ELSE update([w0 EXCEPT !.vn[n2].el = w0.vn[n1].el, !.vn[n2].anchor = w0.vn[n1].anchor])

(* ---------------------- move / unmount / remove ----------------------- *)

moveChildren(w0, children, container, anchor, i) ==
    IF i >= Len(children) THEN w0
    ELSE doMoveChildren(doMove(w0, At(children, i), container, anchor), children, container,
                        anchor, i + 1)

\* a move that leaves a fragment's end anchor where it is
moveWithoutEndAnchor(w0, vnode, container, anchor) ==
    LET v == w0.vn[vnode]
        fragment(x) ==
            doMoveChildren(hostInsert(x, v.el, container, anchor), v.children, container,
                           anchor, 0)
        host(x) ==
            IF v.type = "Fragment" THEN fragment(x)
            ELSE IF v.type = "Static" THEN moveStaticNode(x, vnode, container, anchor)
            ELSE hostInsert(x, v.el, container, anchor)
        moveIt(x) ==
            IF v.type = "Component"
            THEN doMove(x, x.inst[v.component].subTree, container, anchor)
            ELSE host(x)
    IN  moveIt(Log(w0, "move", vnode, 0))

move(w0, vnode, container, anchor) ==
    LET v == w0.vn[vnode]
        fragment(x) ==
            hostInsert(doMoveChildren(hostInsert(x, v.el, container, anchor), v.children,
                                      container, anchor, 0),
                       v.anchor, container, anchor)
        host(x) ==
            IF v.type = "Fragment" THEN fragment(x)
            ELSE IF v.type = "Static" THEN moveStaticNode(x, vnode, container, anchor)
            ELSE hostInsert(x, v.el, container, anchor)
        moveIt(x) ==
            IF v.type = "Component"
            THEN doMove(x, x.inst[v.component].subTree, container, anchor)
            ELSE host(x)
    IN  moveIt(Log(w0, "move", vnode, 0))

RECURSIVE removeFragment(_, _, _)
\* while (cur !== end) { next = hostNextSibling(cur); hostRemove(cur); cur = next }
removeFragment(w0, cur, end) ==
    IF cur = 0 THEN [w0 EXCEPT !.err = TRUE]
    ELSE IF cur # end
    THEN removeFragment(hostRemove(w0, cur), hostNextSibling(w0, cur), end)
    ELSE hostRemove(w0, end)

remove(w0, vnode) ==
    IF w0.vn[vnode].type = "Fragment"
    THEN removeFragment(w0, w0.vn[vnode].el, w0.vn[vnode].anchor)
    ELSE IF w0.vn[vnode].type = "Static" THEN removeStaticNode(w0, vnode)
    ELSE hostRemove(w0, w0.vn[vnode].el)

unmountChildren(w0, children, parentComponent, doRemove, optimized, start) ==
    IF start >= Len(children) THEN w0
    ELSE doUnmountChildren(
             doUnmount(w0, At(children, start), parentComponent, doRemove, optimized),
             children, parentComponent, doRemove, optimized, start + 1)

\* an unmount that does not go into the children
unmountShallow(w0, vnode, parentComponent, doRemove, optimized) ==
    LET v == w0.vn[vnode]
        removeIt(x) == IF doRemove THEN remove(x, vnode) ELSE x
        unmountIt(x) ==
            IF v.type = "Component" THEN doUnmountComponent(x, v.component, doRemove)
            ELSE removeIt(x)
    IN  unmountIt(Log(w0, "unmount", vnode, 0))

\* an unmount that has the children remove their own host nodes
unmountRemovesChildren(w0, vnode, parentComponent, doRemove, optimized) ==
    LET v == w0.vn[vnode]
        children(x) ==
            IF v.hasDyn
               /\ (v.type # "Fragment"
                   \/ (v.patchFlag > 0 /\ HasBit(v.patchFlag, STABLE_FRAGMENT)))
            THEN doUnmountChildren(x, v.dyn, parentComponent, doRemove, TRUE, 0)
            ELSE IF (v.type = "Fragment"
                     /\ (HasBit(v.patchFlag, KEYED_FRAGMENT)
                         \/ HasBit(v.patchFlag, UNKEYED_FRAGMENT)))
                    \/ (~optimized /\ v.ckind = "array")
            THEN doUnmountChildren(x, v.children, parentComponent, doRemove, FALSE, 0)
            ELSE x
        removeIt(x) == IF doRemove /\ v.type # "Fragment" THEN remove(x, vnode) ELSE x
        unmountIt(x) ==
            IF v.type = "Component" THEN doUnmountComponent(x, v.component, doRemove)
            ELSE removeIt(children(x))
    IN  unmountIt(Log(w0, "unmount", vnode, 0))

unmount(w0, vnode, parentComponent, doRemove, optimized) ==
    LET v == w0.vn[vnode]
        children(x) ==
            IF v.hasDyn
               /\ (v.type # "Fragment"
                   \/ (v.patchFlag > 0 /\ HasBit(v.patchFlag, STABLE_FRAGMENT)))
            THEN doUnmountChildren(x, v.dyn, parentComponent, FALSE, TRUE, 0)
            ELSE IF (v.type = "Fragment"
                     /\ (HasBit(v.patchFlag, KEYED_FRAGMENT)
                         \/ HasBit(v.patchFlag, UNKEYED_FRAGMENT)))
                    \/ (~optimized /\ v.ckind = "array")
            THEN doUnmountChildren(x, v.children, parentComponent, FALSE, FALSE, 0)
            ELSE x
        removeIt(x) == IF doRemove THEN remove(x, vnode) ELSE x
        unmountIt(x) ==
            IF v.type = "Component" THEN doUnmountComponent(x, v.component, doRemove)
            ELSE removeIt(children(x))
    IN  unmountIt(Log(w0, "unmount", vnode, 0))

(* ----------------------------- scheduler ------------------------------ *)

\* invalidate: the job leaves the pending queue
invalidateJob(w0, uid) == [w0 EXCEPT !.queue = Without(@, uid)]

queuePostRenderEffect(w0, cb, uid) ==
    IF w0.thrown THEN w0 ELSE [w0 EXCEPT !.post = Append(@, <<cb, uid>>)]

RECURSIVE flushPostFlushCbs(_)
\* the post-render callbacks in the order they were queued
flushPostFlushCbs(w0) ==
    IF w0.post = <<>> \/ w0.thrown THEN w0
    ELSE flushPostFlushCbs(
             IF Head(w0.post)[1] = "isUnmounted"
             THEN [w0 EXCEPT !.post = Tail(@), !.inst[Head(w0.post)[2]].isUnmounted = TRUE]
             ELSE invokeHook([w0 EXCEPT !.post = Tail(@)], Head(w0.post)[1], Head(w0.post)[2],
                             FALSE))

(* ----------------------------- components ----------------------------- *)

\* a node of the tree a render function returns; blk says how block tracking
\* treats it: "block" (openBlock + createBlock), "untracked" (openBlock(true):
\* a block that collects nothing) or "no" (a plain createVNode)
Tpl(type, tag, key, props, ckind, text, kids, patchFlag, blk, dynamicProps, pref) ==
    [type |-> type, tag |-> tag, key |-> key, props |-> props, ckind |-> ckind,
     text |-> text, kids |-> kids, patchFlag |-> patchFlag, blk |-> blk,
     dynamicProps |-> dynamicProps, pref |-> pref]

RECURSIVE allocTree(_, _)
RECURSIVE allocKids(_, _, _, _, _)

allocKids(w0, kids, i, ids, dyn) ==
    LET next(r) == allocKids(r.w, kids, i + 1, Append(ids, r.id), dyn \o r.dyn)
    IN  IF i > Len(kids) THEN [w |-> w0, ids |-> ids, dyn |-> dyn]
        ELSE next(allocTree(w0, kids[i]))

\* creates the vnodes of a template, children first; dyn is what the node adds
\* to the enclosing block's collector
allocTree(w0, t) ==
    LET node(rk) ==
            [w |-> alloc(rk.w,
                         [VNode(t.type, t.tag, t.key, t.props, t.ckind, t.text, rk.ids,
                                t.patchFlag, t.blk = "block",
                                IF t.blk = "block" THEN rk.dyn ELSE <<>>, t.dynamicProps)
                             EXCEPT !.pref = t.pref]),
             id |-> NextVn(rk.w),
             dyn |-> IF t.blk # "no" THEN <<NextVn(rk.w)>>
                     ELSE IF t.patchFlag > 0 \/ t.type = "Component"
                     THEN rk.dyn \o <<NextVn(rk.w)>>
                     ELSE rk.dyn]
    IN  node(allocKids(w0, t.kids, 1, <<>>, <<>>))

\* the render functions of the component types of the model, compiled
\* (blocks and patch flags) or hand-written (neither)
LeafRender(props, state, compiled) ==
    Tpl("Element", "span", 0, EmptyProps, "text", 10 * Get(props, "msg") + state, <<>>,
        IF compiled THEN TEXT ELSE 0, IF compiled THEN "block" ELSE "no", <<>>, 0)

ParentRender(props, state, compiled) ==
    Tpl("Element", "div", 0, EmptyProps, "array", 0,
        <<Tpl("Component", "Leaf", 0, [x \in {"msg"} |-> (Get(props, "n") + state) \div 2],
              "none", 0, <<>>, IF compiled THEN PROPS ELSE 0, "no",
              IF compiled THEN <<"msg">> ELSE <<>>, 0)>>,
        0, IF compiled THEN "block" ELSE "no", <<>>, 0)

\* a parent whose child props are one hoisted object
HoistRender(props, state, compiled) ==
    Tpl("Element", "div", 0, EmptyProps, "array", 0,
        <<Tpl("Text", "", 0, EmptyProps, "text", state + Get(props, "n"), <<>>,
              IF compiled THEN TEXT ELSE 0, "no", <<>>, 0),
          Tpl("Component", "Leaf", 0, [x \in {"msg"} |-> 1], "none", 0, <<>>, 0, "no", <<>>, 1)>>,
        0, IF compiled THEN "block" ELSE "no", <<>>, 0)

\* a component whose root element changes its tag with its state and props
SwapRender(props, state, compiled) ==
    Tpl("Element", IF (state + Get(props, "msg")) % 2 = 0 THEN "div" ELSE "p", 0, EmptyProps, "text",
        Get(props, "msg"), <<>>, 0, IF compiled THEN "block" ELSE "no", <<>>, 0)

\* a span with an onVnodeBeforeUpdate hook
HookyRender(props, state, compiled) ==
    Tpl("Element", "span", 0, [x \in {"onVnodeBeforeUpdate"} |-> 1], "text",
        10 * Get(props, "msg") + state, <<>>, 0, "no", <<>>, 0)

\* a <div> that holds two components while its state is odd; the props say
\* which
GrowRender(props, state, compiled) ==
    LET kid(k) ==
            Tpl("Component", IF Get(props, k) = 1 THEN "Poker" ELSE "Leaf", 0,
                [x \in {"msg"} |-> 0], "none", 0, <<>>, 0, "no", <<>>, 0)
    IN  Tpl("Element", "div", 0, EmptyProps, "array", 0,
            IF state % 2 = 1 THEN <<kid("a"), kid("b")>> ELSE <<>>, 0, "no", <<>>, 0)

\* a component whose root is a fragment: a text and a <b>
PairRender(props, state, compiled) ==
    Tpl("Fragment", "", 0, EmptyProps, "array", 0,
        <<Tpl("Text", "", 0, EmptyProps, "text", state, <<>>, IF compiled THEN TEXT ELSE 0,
              "no", <<>>, 0),
          Tpl("Element", "b", 0, EmptyProps, "text", Get(props, "msg"), <<>>, 0, "no", <<>>, 0)>>,
        IF compiled THEN STABLE_FRAGMENT ELSE 0, IF compiled THEN "block" ELSE "no", <<>>, 0)

\* a component whose root is a fragment: a static text and a span
TrioRender(props, state, compiled) ==
    Tpl("Fragment", "", 0, EmptyProps, "array", 0,
        <<Tpl("Text", "", 0, EmptyProps, "text", 7, <<>>, 0, "no", <<>>, 0),
          Tpl("Element", "span", 0, EmptyProps, "text", 10 * Get(props, "msg") + state, <<>>,
              IF compiled THEN TEXT ELSE 0, "no", <<>>, 0)>>,
        IF compiled THEN STABLE_FRAGMENT ELSE 0, IF compiled THEN "block" ELSE "no", <<>>, 0)

renderFn(type, props, state, compiled) ==
    CASE type \in {"Leaf", "Nest", "Poker", "Again", "Early"} -> LeafRender(props, state, compiled)
      [] type = "Pair" -> PairRender(props, state, compiled)
      [] type = "Trio" -> TrioRender(props, state, compiled)
      [] type = "Grow" -> GrowRender(props, state, compiled)
      [] type = "Hooky" -> HookyRender(props, state, compiled)
      [] type = "Parent" -> ParentRender(props, state, compiled)
      [] type = "Hoist" -> HoistRender(props, state, compiled)
      [] type = "Swap" -> SwapRender(props, state, compiled)

\* render(null, container) on a container that holds no vnode: there is nothing
\* to unmount, the callbacks are flushed and container._vnode stays null
renderDetached(w0) == flushPostFlushCbs(w0)

\* the instance's render callback runs; the new tree is the last vnode
\* allocated.  The callback of a Throw component throws, the callback of a Nest
\* component calls render on a container of its own before it returns its tree.
renderComponentRoot(w0, uid) ==
    LET callback(x) == IF x.inst[uid].type = "Nest" THEN renderDetached(x) ELSE x
        noted(x) ==
            IF x.inst[uid].type = "Hooky"
            THEN Log(x, "allowRecurse", uid, x.inst[uid].allowRecurse)
            ELSE x
        tree(x) ==
            noted(Log([allocTree(x, renderFn(x.inst[uid].type, x.inst[uid].props,
                                             x.inst[uid].state, x.compiled)).w
                          EXCEPT !.inst[uid].renders = @ + 1],
                      "render", uid, 0))
    IN  IF w0.thrown THEN w0
        ELSE IF w0.inst[uid].type = "Throw" THEN [w0 EXCEPT !.thrown = TRUE]
        ELSE tree(callback(w0))

createComponentInstance(w0, vnode, parent) ==
    [w0 EXCEPT !.inst = Append(@, [type |-> w0.vn[vnode].tag, vnode |-> vnode, next |-> 0,
                                   subTree |-> 0, parent |-> parent, props |-> w0.vn[vnode].props,
                                   state |-> 0, isMounted |-> FALSE, isUnmounted |-> FALSE,
                                   scopeActive |-> TRUE, updateActive |-> TRUE,
                                   allowRecurse |-> FALSE, renders |-> 0, jobId |-> 0])]

\* no update is needed when the props object is the same or shallowly equal
shouldUpdateComponent(w0, n1, n2, optimized) ==
    PropsRef(w0, n1) # PropsRef(w0, n2) /\ w0.vn[n1].props # w0.vn[n2].props

updateComponentPreRender(w0, uid, nextVNode) ==
    [w0 EXCEPT !.vn[nextVNode].component = uid,
               !.inst[uid].vnode = nextVNode,
               !.inst[uid].next = 0,
               !.inst[uid].props = w0.vn[nextVNode].props]

RECURSIVE updateHOCHostEl(_, _, _, _)
\* while (parent && parent.subTree === vnode) { (vnode = parent.vnode).el = el; ... }
updateHOCHostEl(w0, vnode, parent, el) ==
    IF parent # 0 /\ w0.inst[parent].subTree = vnode
    THEN updateHOCHostEl([w0 EXCEPT !.vn[w0.inst[parent].vnode].el = el],
                         w0.inst[parent].vnode, w0.inst[parent].parent, el)
    ELSE w0

\* a mount that goes on after its render callback threw
componentMountSwallows(w0, uid, initialVNode, container, anchor) ==
    LET mounted(x) ==
            [queuePostRenderEffect([x EXCEPT !.thrown = FALSE], "m", uid)
                EXCEPT !.inst[uid].isMounted = TRUE]
    IN  mounted(renderComponentRoot(
            toggleRecurse(invokeHook(toggleRecurse(w0, uid, FALSE), "bm", uid, TRUE), uid, TRUE),
            uid))

\* componentUpdateFn, !instance.isMounted
componentMount(w0, uid, initialVNode, container, anchor) ==
    LET mountTree(x) ==
            IF x.thrown THEN x
            ELSE patchDefault([x EXCEPT !.inst[uid].subTree = Len(x.vn)], 0, Len(x.vn),
                              container, anchor, uid)
        mounted(x) ==
            IF x.thrown THEN x
            ELSE [queuePostRenderEffect(x, "m", uid)
                     EXCEPT !.vn[initialVNode].el = x.vn[x.inst[uid].subTree].el,
                            !.inst[uid].isMounted = TRUE]
    IN  mounted(mountTree(renderComponentRoot(
            toggleRecurse(invokeHook(toggleRecurse(w0, uid, FALSE), "bm", uid, TRUE), uid, TRUE),
            uid)))

\* an update that patches the subtree at the end of its container
componentUpdateAtEnd(w0, uid) ==
    LET originNext == w0.inst[uid].next
        vnode == w0.inst[uid].vnode
        next == IF originNext # 0 THEN originNext ELSE vnode
        preRender(x) ==
            IF originNext # 0
            THEN updateComponentPreRender([x EXCEPT !.vn[originNext].el = x.vn[vnode].el],
                                          uid, originNext)
            ELSE x
        patchTree(x, prevTree, nextTree) ==
            patchDefault(Log(Log([x EXCEPT !.inst[uid].subTree = nextTree],
                                 "updateContainer", uid, hostParentNode(x, x.vn[prevTree].el)),
                             "updateAnchor", uid, 0),
                         prevTree, nextTree, hostParentNode(x, x.vn[prevTree].el), 0, uid)
        rendered(x) == IF x.thrown THEN x ELSE patchTree(x, x.inst[uid].subTree, Len(x.vn))
        hostEl(x, nextTree) ==
            IF originNext = 0
            THEN updateHOCHostEl([x EXCEPT !.vn[next].el = x.vn[nextTree].el],
                                 x.inst[uid].vnode, x.inst[uid].parent, x.vn[nextTree].el)
            ELSE [x EXCEPT !.vn[next].el = x.vn[nextTree].el]
        updated(x) ==
            IF x.thrown THEN x
            ELSE queuePostRenderEffect(hostEl(x, x.inst[uid].subTree), "u", uid)
    IN  updated(rendered(renderComponentRoot(
            toggleRecurse(invokeHook(preRender(toggleRecurse(w0, uid, FALSE)), "bu", uid, TRUE),
                          uid, TRUE),
            uid)))

\* componentUpdateFn, instance.isMounted; the log has the container and the
\* anchor the subtree is patched with
componentUpdate(w0, uid) ==
    LET originNext == w0.inst[uid].next
        vnode == w0.inst[uid].vnode
        next == IF originNext # 0 THEN originNext ELSE vnode
        preRender(x) ==
            IF originNext # 0
            THEN updateComponentPreRender([x EXCEPT !.vn[originNext].el = x.vn[vnode].el],
                                          uid, originNext)
            ELSE x
        patchTree(x, prevTree, nextTree) ==
            patchDefault(Log(Log([x EXCEPT !.inst[uid].subTree = nextTree],
                                 "updateContainer", uid, hostParentNode(x, x.vn[prevTree].el)),
                             "updateAnchor", uid, getNextHostNode(x, prevTree)),
                         prevTree, nextTree,
                         hostParentNode(x, x.vn[prevTree].el), getNextHostNode(x, prevTree), uid)
        rendered(x) == IF x.thrown THEN x ELSE patchTree(x, x.inst[uid].subTree, Len(x.vn))
        hostEl(x, nextTree) ==
            IF originNext = 0
            THEN updateHOCHostEl([x EXCEPT !.vn[next].el = x.vn[nextTree].el],
                                 x.inst[uid].vnode, x.inst[uid].parent, x.vn[nextTree].el)
            ELSE [x EXCEPT !.vn[next].el = x.vn[nextTree].el]
        updated(x) ==
            IF x.thrown THEN x
            ELSE queuePostRenderEffect(hostEl(x, x.inst[uid].subTree), "u", uid)
    IN  updated(rendered(renderComponentRoot(
            toggleRecurse(invokeHook(preRender(toggleRecurse(w0, uid, FALSE)), "bu", uid, TRUE),
                          uid, TRUE),
            uid)))

\* instance.update(): effect.run() runs componentUpdateFn
componentUpdateFn(w0, uid) ==
    IF w0.inst[uid].isMounted THEN componentUpdate(w0, uid)
    ELSE componentMount(w0, uid, w0.inst[uid].vnode, 0, 0)

\* an update job whose id falls as the uid grows
setupRenderEffectDescendingId(w0, uid, initialVNode, container, anchor) ==
    componentMount(toggleRecurse([w0 EXCEPT !.inst[uid].jobId = 0 - uid], uid, TRUE), uid,
                   initialVNode, container, anchor)

\* update.id = instance.uid; toggleRecurse(instance, true); update()
setupRenderEffect(w0, uid, initialVNode, container, anchor) ==
    componentMount(toggleRecurse([w0 EXCEPT !.inst[uid].jobId = uid], uid, TRUE), uid,
                   initialVNode, container, anchor)

mountComponent(w0, initialVNode, container, anchor, parentComponent) ==
    setupRenderEffect([createComponentInstance(w0, initialVNode, parentComponent)
                          EXCEPT !.vn[initialVNode].component = Len(w0.inst) + 1],
                      Len(w0.inst) + 1, initialVNode, container, anchor)

\* an update that runs whether or not the props changed
updateComponentAlways(w0, n1, n2, optimized) ==
    LET instance == w0.vn[n1].component
    IN  componentUpdateFn(
            invalidateJob(Log([w0 EXCEPT !.vn[n2].component = instance,
                                         !.inst[instance].next = n2],
                              "update", instance, Has(w0.queue, instance)),
                          instance),
            instance)

\* an update that leaves the instance's pending job in the queue
updateComponentKeepsJob(w0, n1, n2, optimized) ==
    LET instance == w0.vn[n1].component
    IN  IF shouldUpdateComponent(w0, n1, n2, optimized)
        THEN componentUpdateFn(
                 Log([w0 EXCEPT !.vn[n2].component = instance, !.inst[instance].next = n2],
                     "update", instance, Has(w0.queue, instance)),
                 instance)
        ELSE [w0 EXCEPT !.vn[n2].component = instance,
                        !.vn[n2].el = w0.vn[n1].el,
                        !.inst[instance].vnode = n2]

\* the log entry "update" records whether the instance's job was pending when
\* the parent's patch reached it
updateComponent(w0, n1, n2, optimized) ==
    LET instance == w0.vn[n1].component
        update(x) ==
            componentUpdateFn(
                invalidateJob(Log([x EXCEPT !.inst[instance].next = n2], "update", instance,
                                  Has(x.queue, instance)),
                              instance),
                instance)
    IN  IF shouldUpdateComponent(w0, n1, n2, optimized)
        THEN update([w0 EXCEPT !.vn[n2].component = instance])
        ELSE [w0 EXCEPT !.vn[n2].component = instance,
                        !.vn[n2].el = w0.vn[n1].el,
                        !.inst[instance].vnode = n2]

processComponent(w0, n1, n2, container, anchor, parentComponent, optimized) ==
    IF n1 = 0
    THEN mountComponent(w0, n2, container, anchor, parentComponent)
    ELSE updateComponent(w0, n1, n2, optimized)

\* an unmount that leaves the instance's update job active
unmountComponentKeepsJobActive(w0, uid, doRemove) ==
    queuePostRenderEffect(
        queuePostRenderEffect(
            doUnmount([Log(w0, "hook", "bum", uid) EXCEPT !.inst[uid].scopeActive = FALSE],
                      w0.inst[uid].subTree, uid, doRemove, FALSE),
            "um", uid),
        "isUnmounted", uid)

unmountComponent(w0, uid, doRemove) ==
    queuePostRenderEffect(
        queuePostRenderEffect(
            doUnmount([Log(w0, "hook", "bum", uid)
                          EXCEPT !.inst[uid].scopeActive = FALSE,
                                 !.inst[uid].updateActive = FALSE],
                      w0.inst[uid].subTree, uid, doRemove, FALSE),
            "um", uid),
        "isUnmounted", uid)

(* ------------------------------ patch --------------------------------- *)

\* a dispatch that takes a BAIL flag for any other
patchDispatchTrustsFlags(w0, n1in, n2, container, anchor0, parentComponent, optimized0) ==
    LET notSame == n1in # 0 /\ ~isSameVNodeType(w0.vn[n1in], w0.vn[n2])
        anchor == IF notSame THEN getNextHostNode(w0, n1in) ELSE anchor0
        n1 == IF notSame THEN 0 ELSE n1in
        bail == FALSE
        optimized == IF bail THEN FALSE ELSE optimized0
        type == w0.vn[n2].type
        unmountOld(x) == IF notSame THEN doUnmount(x, n1in, parentComponent, TRUE, FALSE) ELSE x
        bailOut(x) == IF bail THEN [x EXCEPT !.vn[n2].hasDyn = FALSE, !.vn[n2].dyn = <<>>] ELSE x
        static(x) ==
            IF n1 = 0 THEN mountStaticNode(x, n2, container, anchor)
            ELSE IF x.dev THEN patchStaticNode(x, n1, n2, container)
            ELSE x
        process(x) ==
            CASE type = "Text" -> processText(x, n1, n2, container, anchor)
              [] type = "Comment" -> processCommentNode(x, n1, n2, container, anchor)
              [] type = "Static" -> static(x)
              [] type = "Fragment" ->
                   processFragment(x, n1, n2, container, anchor, parentComponent, optimized)
              [] type = "Element" ->
                   processElement(x, n1, n2, container, anchor, parentComponent, optimized)
              [] type = "Component" ->
                   processComponent(x, n1, n2, container, anchor, parentComponent, optimized)
    IN  process(Log(bailOut(unmountOld(w0)), IF n1 = 0 THEN "mount" ELSE "patch", n2, n1in))

\* patch past its identity check; the log entry is <<"mount", n2, n1>> when n2
\* is mounted (n1 the node it replaces, 0 if none) and <<"patch", n2, n1>> when
\* n1 is patched to n2
patchDispatch(w0, n1in, n2, container, anchor0, parentComponent, optimized0) ==
    LET notSame == n1in # 0 /\ ~isSameVNodeType(w0.vn[n1in], w0.vn[n2])
        anchor == IF notSame THEN getNextHostNode(w0, n1in) ELSE anchor0
        n1 == IF notSame THEN 0 ELSE n1in
        bail == w0.vn[n2].patchFlag = BAIL
        optimized == IF bail THEN FALSE ELSE optimized0
        type == w0.vn[n2].type
        unmountOld(x) == IF notSame THEN doUnmount(x, n1in, parentComponent, TRUE, FALSE) ELSE x
        bailOut(x) == IF bail THEN [x EXCEPT !.vn[n2].hasDyn = FALSE, !.vn[n2].dyn = <<>>] ELSE x
        static(x) ==
            IF n1 = 0 THEN mountStaticNode(x, n2, container, anchor)
            ELSE IF x.dev THEN patchStaticNode(x, n1, n2, container)
            ELSE x
        process(x) ==
            CASE type = "Text" -> processText(x, n1, n2, container, anchor)
              [] type = "Comment" -> processCommentNode(x, n1, n2, container, anchor)
              [] type = "Static" -> static(x)
              [] type = "Fragment" ->
                   processFragment(x, n1, n2, container, anchor, parentComponent, optimized)
              [] type = "Element" ->
                   processElement(x, n1, n2, container, anchor, parentComponent, optimized)
              [] type = "Component" ->
                   processComponent(x, n1, n2, container, anchor, parentComponent, optimized)
    IN  process(Log(bailOut(unmountOld(w0)), IF n1 = 0 THEN "mount" ELSE "patch", n2, n1in))

\* a patch without the identity check
patchAlways(w0, n1, n2, container, anchor, parentComponent, optimized) ==
    patchDispatch(w0, n1, n2, container, anchor, parentComponent, optimized)

\* if (n1 === n2) return
patch(w0, n1, n2, container, anchor, parentComponent, optimized) ==
    IF n1 = n2 THEN w0
    ELSE patchDispatch(w0, n1, n2, container, anchor, parentComponent, optimized)

\* the host node of the root container
Container == 1

\* render(vnode, container); w.root is container._vnode
render(w0, vnode) ==
    LET unmountRoot(x) == IF x.root # 0 THEN doUnmount(x, x.root, 0, TRUE, FALSE) ELSE x
        done(x) == IF x.thrown THEN x ELSE [x EXCEPT !.root = vnode]
    IN  done(flushPostFlushCbs(IF vnode = 0 THEN unmountRoot(w0)
                               ELSE patchDefault(w0, w0.root, vnode, Container, 0, 0)))

\* what a hook renders into the root container: nothing if its instance's msg
\* is 0, else a <p>
renderAgain(w0, uid) ==
    LET rendered(r) == render(Log(r.w, "renderAgain", r.id, uid), r.id)
    IN  IF Get(w0.inst[uid].props, "msg") = 0 THEN render(Log(w0, "renderAgain", 0, uid), 0)
        ELSE rendered(allocTree(w0, Tpl("Element", "p", 0, EmptyProps, "text",
                                        Get(w0.inst[uid].props, "msg"), <<>>, 0, "no", <<>>, 0)))

RECURSIVE flushJobs(_)

\* the dispatch of a call on the callee's name; nothing is called while an
\* exception is in flight
call(w0, t) ==
    IF w0.thrown THEN w0 ELSE
    CASE t[1] = "patch" -> patch(w0, t[2], t[3], t[4], t[5], t[6], t[7])
      [] t[1] = "mountChildren" -> mountChildren(w0, t[2], t[3], t[4], t[5], t[6], t[7])
      [] t[1] = "unmount" -> unmount(w0, t[2], t[3], t[4], t[5])
      [] t[1] = "unmountChildren" -> unmountChildren(w0, t[2], t[3], t[4], t[5], t[6])
      [] t[1] = "move" -> move(w0, t[2], t[3], t[4])
      [] t[1] = "moveChildren" -> moveChildren(w0, t[2], t[3], t[4], t[5])
      [] t[1] = "patchChildren" -> patchChildren(w0, t[2], t[3], t[4], t[5], t[6], t[7])
      [] t[1] = "patchBlockChildren" -> patchBlockChildren(w0, t[2], t[3], t[4], t[5], t[6])
      [] t[1] = "unmountComponent" -> unmountComponent(w0, t[2], t[3])
      [] t[1] = "renderAgain" -> renderAgain(w0, t[2])
      [] t[1] = "render" -> render(w0, t[2])
      [] t[1] = "flushJobs" -> flushJobs(w0)
      [] t[1] = "flushPostFlushCbs" -> flushPostFlushCbs(w0)

\* the queued jobs in ascending id order, then the post-render callbacks; a
\* job that is no longer active is skipped, a job that runs is logged
flushJobs(w0) ==
    LET job == CHOOSE j \in {w0.queue[x] : x \in 1..Len(w0.queue)} :
                   \A x \in 1..Len(w0.queue) : w0.inst[j].jobId <= w0.inst[w0.queue[x]].jobId
        run(x) ==
            IF x.inst[job].updateActive THEN componentUpdateFn(Log(x, "job", job, 0), job)
            ELSE x
    IN  IF w0.thrown THEN w0
        ELSE IF w0.queue = <<>> THEN flushPostFlushCbs(w0)
        ELSE flushJobs(run([w0 EXCEPT !.queue = Without(@, job)]))

\* the vnodes of a template are created and rendered into the container; the
\* log holds the events of this call only
RenderTpl(w0, t) ==
    LET rendered(r) == doRender(r.w, r.id)
    IN  rendered(allocTree([w0 EXCEPT !.log = <<>>], t))

World0(dev, compiled) ==
    [kids |-> << <<>> >>, par |-> <<0>>, kind |-> <<"#container">>, text |-> <<0>>,
     attrs |-> <<EmptyProps>>, vn |-> <<>>, inst |-> <<>>, queue |-> <<>>, post |-> <<>>,
     log |-> <<>>, err |-> FALSE, dev |-> dev, compiled |-> compiled, root |-> 0,
     thrown |-> FALSE, staticOp |-> TRUE, hmr |-> FALSE,
     hookChanges |-> {}]

(* ------------------ the keyed children diff, end to end ---------------- *)

Keys == 1..NumKeys

\* the lists of distinct keys of length at most MaxLen
KeyLists ==
    {l \in UNION {[1..n -> Keys] : n \in 0..MaxLen} :
        \A i, j \in 1..Len(l) : i # j => l[i] # l[j]}

\* the old list names its keys by their position: 1, 2, ..., n
OldLists == {[i \in 1..n |-> i] : n \in 0..MaxLen}

\* a keyed child: <li :key="key">{{ content }}</li>; key 0 is a <li> and key -1
\* a <p> without a key
KeyedChild(key, content) ==
    Tpl("Element", IF key = 0 - 1 THEN "p" ELSE "li", IF key > 0 THEN key ELSE 0, EmptyProps,
        "text", content, <<>>, 0, "no", <<>>, 0)

\* the owner of a keyed list: a <ul> written by hand, or the fragment of a
\* v-for (KEYED_FRAGMENT, tracking disabled); version tells the renders apart
KeyedOwner(owner, keys, version) ==
    IF owner = "Element"
    THEN Tpl("Element", "ul", 0, EmptyProps, "array", 0,
             AsSeq([i \in 1..Len(keys) |-> KeyedChild(keys[i], keys[i] + 10 * version)]),
             0, "no", <<>>, 0)
    ELSE Tpl("Fragment", "", 0, EmptyProps, "array", 0,
             AsSeq([i \in 1..Len(keys) |-> KeyedChild(keys[i], keys[i] + 10 * version)]),
             KEYED_FRAGMENT, "untracked", <<>>, 0)

\* render(h(owner, keys), container)
RenderKeyed(w0, owner, keys, version) == RenderTpl(w0, KeyedOwner(owner, keys, version))

InitKeyed ==
    /\ inp \in [a : OldLists, b : KeyLists, owner : {"Element", "Fragment"}]
    /\ w = World0(TRUE, FALSE)
    /\ pc = "start"
    /\ hist = <<>>

\* the list A is mounted
MountA ==
    /\ pc = "start"
    /\ w' = RenderKeyed(w, inp.owner, inp.a, 0)
    /\ pc' = "A"
    /\ hist' = Append(hist, w)
    /\ UNCHANGED inp

\* A is diffed to B
DiffAB ==
    /\ pc = "A"
    /\ w' = RenderKeyed(w, inp.owner, inp.b, 1)
    /\ pc' = "B"
    /\ hist' = Append(hist, w)
    /\ UNCHANGED inp

\* B is diffed back to A
DiffBA ==
    /\ pc = "B"
    /\ w' = RenderKeyed(w, inp.owner, inp.a, 0)
    /\ pc' = "A2"
    /\ hist' = Append(hist, w)
    /\ UNCHANGED inp

NextKeyed == MountA \/ DiffAB \/ DiffBA

SpecKeyed == InitKeyed /\ [][NextKeyed]_vars

(* ------------------- what the keyed diff is claimed to do -------------- *)

\* the world before the last render
Before == hist[Len(hist)]

\* a diff of two keyed lists has just run
Diffed == pc \in {"B", "A2"}

KeysOf(x, owner) ==
    [i \in 1..Len(x.vn[owner].children) |-> x.vn[x.vn[owner].children[i]].key]

ElsOf(x, owner) ==
    [i \in 1..Len(x.vn[owner].children) |-> x.vn[x.vn[owner].children[i]].el]

\* the host children the list occupies: those of the <ul>, or those of the
\* container between the fragment's anchors
HostRegion(x, owner) ==
    IF x.vn[owner].type = "Element" THEN x.kids[x.vn[owner].el]
    ELSE SubSeq(x.kids[Container], IndexOf(x.kids[Container], x.vn[owner].el) + 1,
                IndexOf(x.kids[Container], x.vn[owner].anchor) - 1)

OldKeys == KeysOf(Before, Before.root)

NewKeys == KeysOf(w, w.root)

OldEls == ElsOf(Before, Before.root)

NewEls == ElsOf(w, w.root)

SeqSet(s) == {s[i] : i \in 1..Len(s)}

\* the keys of the vnodes the log's `op` entries name, in log order
LoggedKeys(op) ==
    LET hits == SelectSeq(w.log, LAMBDA e : e[1] = op)
    IN  [i \in 1..Len(hits) |-> w.vn[hits[i][2]].key]

\* the new positions whose key was in the old list, and the old position each
\* of them had
Survivors == SelectSeq([i \in 1..Len(NewKeys) |-> i], LAMBDA i : Has(OldKeys, NewKeys[i]))

OldPositions == [i \in 1..Len(Survivors) |-> IndexOf(OldKeys, NewKeys[Survivors[i]])]

Increasing(s, S) == \A i, j \in S : i < j => s[i] < s[j]

\* the length of the longest increasing subsequence, by enumeration
LisLength(s) ==
    CHOOSE n \in 0..Len(s) :
        /\ \E S \in SUBSET (1..Len(s)) : Cardinality(S) = n /\ Increasing(s, S)
        /\ \A S \in SUBSET (1..Len(s)) : Increasing(s, S) => Cardinality(S) <= n

\* C1: after a diff of two keyed lists the host children of the container are
\* the host nodes of the new list in new-list order; a key of both lists keeps
\* its host node, a key of the new list only has one host node created by this
\* diff, and the host node of a key of the old list only is detached.
KeyedDiffResult ==
    Diffed =>
        /\ ~w.err
        /\ HostRegion(w, w.root) = NewEls
        /\ \A i \in 1..Len(NewKeys) :
              IF Has(OldKeys, NewKeys[i])
              THEN NewEls[i] = OldEls[IndexOf(OldKeys, NewKeys[i])]
              ELSE /\ NewEls[i] > Len(Before.kids)
                   /\ \A j \in 1..Len(NewKeys) : NewEls[j] = NewEls[i] => j = i
        /\ Count(w.log, "create") = Cardinality(SeqSet(NewKeys) \ SeqSet(OldKeys))
        /\ \A j \in 1..Len(OldKeys) :
              ~Has(NewKeys, OldKeys[j]) => w.par[OldEls[j]] = 0 /\ ~Has(NewEls, OldEls[j])

\* a diff that moved a node, mounted a node and unmounted a node
KeyedDiffResultWitness ==
    /\ Diffed
    /\ Count(w.log, "move") > 0
    /\ SeqSet(NewKeys) \ SeqSet(OldKeys) # {}
    /\ SeqSet(OldKeys) \ SeqSet(NewKeys) # {}

\* C4: a diff to a permutation of the old list makes n - L calls to move, L
\* the length of the longest increasing subsequence of the old positions in
\* new order, and mounts and unmounts nothing; [a,b,c] to [c,a,b] is one move,
\* of c.
PermutationMoves ==
    (Diffed /\ Len(OldKeys) = Len(NewKeys) /\ SeqSet(OldKeys) = SeqSet(NewKeys)) =>
        /\ Count(w.log, "move") = Len(NewKeys) - LisLength(OldPositions)
        /\ Count(w.log, "insert") = Count(w.log, "move")
        /\ Count(w.log, "mount") = 0
        /\ Count(w.log, "unmount") = 0
        /\ Count(w.log, "create") = 0
        /\ Count(w.log, "remove") = 0
        /\ (OldKeys = <<1, 2, 3>> /\ NewKeys = <<3, 1, 2>> => LoggedKeys("move") = <<3>>)

\* the diff of [a,b,c] to [c,a,b]
PermutationMovesWitness ==
    /\ pc = "B"
    /\ OldKeys = <<1, 2, 3>>
    /\ NewKeys = <<3, 1, 2>>
    /\ Count(w.log, "move") = 1

\* C5: a diff mounts the nodes whose key is in the new list only, each once,
\* and unmounts the nodes whose key is in the old list only, each once; the
\* moved nodes are surviving nodes, as many as lie outside a longest increasing
\* subsequence of the old positions, and the surviving nodes not moved are in
\* increasing order of old position (none is moved when the order is kept).
MountUnmountMove ==
    Diffed =>
        /\ SeqSet(LoggedKeys("mount")) = SeqSet(NewKeys) \ SeqSet(OldKeys)
        /\ Len(LoggedKeys("mount")) = Cardinality(SeqSet(NewKeys) \ SeqSet(OldKeys))
        /\ SeqSet(LoggedKeys("unmount")) = SeqSet(OldKeys) \ SeqSet(NewKeys)
        /\ Len(LoggedKeys("unmount")) = Cardinality(SeqSet(OldKeys) \ SeqSet(NewKeys))
        /\ SeqSet(LoggedKeys("move")) \subseteq SeqSet(NewKeys) \cap SeqSet(OldKeys)
        /\ Len(LoggedKeys("move")) = Cardinality(SeqSet(LoggedKeys("move")))
        /\ Len(LoggedKeys("move")) = Len(Survivors) - LisLength(OldPositions)
        /\ Increasing(OldPositions,
                      {i \in 1..Len(Survivors) :
                          NewKeys[Survivors[i]] \notin SeqSet(LoggedKeys("move"))})
        /\ (OldKeys = <<1, 2, 3>> /\ NewKeys = <<1, 4, 2, 3>> =>
                /\ LoggedKeys("mount") = <<4>>
                /\ LoggedKeys("move") = <<>>
                /\ LoggedKeys("unmount") = <<>>)
        /\ (OldKeys = <<1, 2, 3, 4>> /\ NewKeys = <<4, 3, 2>> =>
                /\ LoggedKeys("unmount") = <<1>>
                /\ Len(LoggedKeys("move")) = 2
                /\ LoggedKeys("mount") = <<>>)

\* the diff of [a,b,c,d] to [d,c,b]
MountUnmountMoveWitness ==
    /\ pc = "B"
    /\ OldKeys = <<1, 2, 3, 4>>
    /\ NewKeys = <<4, 3, 2>>
    /\ LoggedKeys("unmount") = <<1>>
    /\ Len(LoggedKeys("move")) = 2

\* the world right after A was mounted
AfterMount == hist[2]

\* kind, text and attributes of the host nodes a list occupies
Content(x, owner) ==
    [i \in 1..Len(HostRegion(x, owner)) |->
        <<x.kind[HostRegion(x, owner)[i]], x.text[HostRegion(x, owner)[i]],
          x.attrs[HostRegion(x, owner)[i]]>>]

\* C6: after A is mounted, diffed to B and diffed back to A, the container
\* holds host nodes of the same kinds and content in the same order as right
\* after the mount, and the keys of both A and B have the host node they were
\* mounted with.
RoundTrip ==
    pc = "A2" =>
        /\ ~w.err
        /\ NewKeys = KeysOf(AfterMount, AfterMount.root)
        /\ HostRegion(w, w.root) = NewEls
        /\ Content(w, w.root) = Content(AfterMount, AfterMount.root)
        /\ w.vn[w.root].el = AfterMount.vn[AfterMount.root].el
        /\ \A i \in 1..Len(NewKeys) :
              Has(OldKeys, NewKeys[i]) => NewEls[i] = ElsOf(AfterMount, AfterMount.root)[i]

\* a round trip through a B that reorders A, drops a key and adds one
RoundTripWitness ==
    /\ pc = "A2"
    /\ inp.a = <<1, 2, 3>>
    /\ inp.b = <<3, 4, 1>>
    /\ NewEls[1] = ElsOf(AfterMount, AfterMount.root)[1]
    /\ NewEls[2] # ElsOf(AfterMount, AfterMount.root)[2]


(* ------------------- one node patched to another ----------------------- *)

Texts == 1..NumTexts

\* the nodes a patch is tried on: a text, a comment, a static blob, a span
\* written by hand, a compiled span whose text is dynamic (under a v-if when it
\* has a key), a link with a class binding, a stable fragment and two
\* components
Kinds == {"Text", "Comment", "Static", "Span", "SpanText", "Link", "Fragment", "Leaf", "Swap"}

Items ==
    {it \in [kind : Kinds, key : {0, 1}, text : Texts] : it.key = 0 \/ it.kind = "SpanText"}

\* where the node stands: alone in the container, in the fragment of a v-for
\* without keys, in a block element between two hoisted elements, or after the
\* comment of a template root that development mode wraps in a fragment
Ctxs == {"root", "unkeyed", "block", "devroot"}

\* the nodes a block collects as dynamic children
Trackable(it) == it.kind \in {"SpanText", "Link", "Fragment", "Leaf", "Swap"}

ItemTpl(it, ctx) ==
    LET inTemplate == ctx \in {"block", "devroot"}
    IN  CASE it.kind = "Text" ->
               Tpl("Text", "", 0, EmptyProps, "text", it.text, <<>>, 0, "no", <<>>, 0)
          [] it.kind = "Comment" ->
               Tpl("Comment", "", 0, EmptyProps, "text", it.text, <<>>, 0, "no", <<>>, 0)
          [] it.kind = "Static" ->
               Tpl("Static", "", 0, EmptyProps, "text", it.text, <<>>, 0, "no", <<>>, 0)
          [] it.kind = "Span" ->
               Tpl("Element", "span", 0, EmptyProps, "text", it.text, <<>>, 0, "no", <<>>, 0)
          [] it.kind = "SpanText" ->
               Tpl("Element", "span", it.key, EmptyProps, "text", it.text, <<>>, TEXT,
                   IF it.key # 0 \/ ~inTemplate THEN "block" ELSE "no", <<>>, 0)
          [] it.kind = "Link" ->
               Tpl("Element", "a", 0, [x \in {"class"} |-> it.text], "text", 9, <<>>,
                   IF inTemplate THEN CLASS ELSE 0, "no", <<>>, 0)
          [] it.kind = "Fragment" ->
               Tpl("Fragment", "", 0, EmptyProps, "array", 0,
                   <<Tpl("Text", "", 0, EmptyProps, "text", it.text, <<>>, TEXT, "no", <<>>, 0)>>,
                   STABLE_FRAGMENT, "block", <<>>, 0)
          [] it.kind \in {"Leaf", "Swap"} ->
               Tpl("Component", it.kind, 0, [x \in {"msg"} |-> it.text], "none", 0, <<>>,
                   IF inTemplate THEN PROPS ELSE 0, "no",
                   IF inTemplate THEN <<"msg">> ELSE <<>>, 0)

Hoisted(tag, text) ==
    Tpl("Element", tag, 0, EmptyProps, "text", text, <<>>, HOISTED, "no", <<>>, 0)

TreeOf(it, ctx) ==
    CASE ctx = "root" -> ItemTpl(it, ctx)
      [] ctx = "unkeyed" ->
           Tpl("Fragment", "", 0, EmptyProps, "array", 0,
               <<Tpl("Text", "", 0, EmptyProps, "text", 7, <<>>, 0, "no", <<>>, 0),
                 ItemTpl(it, ctx),
                 Tpl("Text", "", 0, EmptyProps, "text", 8, <<>>, 0, "no", <<>>, 0)>>,
               UNKEYED_FRAGMENT, "untracked", <<>>, 0)
      [] ctx = "block" ->
           Tpl("Element", "div", 0, EmptyProps, "array", 0,
               <<Hoisted("h1", 7), ItemTpl(it, ctx), Hoisted("h2", 8)>>,
               0, "block", <<>>, 0)
      [] ctx = "devroot" ->
           Tpl("Fragment", "", 0, EmptyProps, "array", 0,
               <<Tpl("Comment", "", 0, EmptyProps, "text", 7, <<>>, 0, "no", <<>>, 0),
                 ItemTpl(it, ctx)>>,
               STABLE_FRAGMENT + DEV_ROOT_FRAGMENT, "block", <<>>, 0)

\* a block pairs its dynamic children by index, so both renders of a block
\* track the node; the root fragment exists in development builds of compiled
\* templates only; static content is hoisted, so that one static vnode meets
\* another in development (hot reload) only
InitPatch ==
    /\ inp \in {i \in [old : Items, new : Items, ctx : Ctxs, dev : BOOLEAN, compiled : BOOLEAN] :
                   /\ i.ctx = "block" => Trackable(i.old) /\ Trackable(i.new) /\ i.compiled
                   /\ i.ctx = "devroot" => i.dev /\ i.compiled
                   /\ (i.old.kind = "Static" /\ i.new.kind = "Static") => i.dev}
    /\ w = World0(inp.dev, inp.compiled)
    /\ pc = "start"
    /\ hist = <<>>

\* the old node is mounted
MountOld ==
    /\ pc = "start"
    /\ w' = RenderTpl(w, TreeOf(inp.old, inp.ctx))
    /\ pc' = "old"
    /\ hist' = Append(hist, w)
    /\ UNCHANGED inp

\* the old node is patched to the new one
PatchNew ==
    /\ pc = "old"
    /\ w' = RenderTpl(w, TreeOf(inp.new, inp.ctx))
    /\ pc' = "new"
    /\ hist' = Append(hist, w)
    /\ UNCHANGED inp

\* the new node is patched to a fresh render of the old one
PatchBack ==
    /\ pc = "new"
    /\ w' = RenderTpl(w, TreeOf(inp.old, inp.ctx))
    /\ pc' = "back"
    /\ hist' = Append(hist, w)
    /\ UNCHANGED inp

\* the mounted tree is patched against itself
SelfPatch ==
    /\ pc \in {"old", "new", "back"}
    /\ w' = patchDefault(w, w.root, w.root, Container, 0, 0)
    /\ pc' = "self"
    /\ hist' = Append(hist, w)
    /\ UNCHANGED inp

NextPatch == MountOld \/ PatchNew \/ PatchBack \/ SelfPatch

SpecPatch == InitPatch /\ [][NextPatch]_vars

(* ----------------------- what patch is claimed to do ------------------- *)

\* a render that patched a mounted tree has just run
Patched == pc \in {"new", "back"}

\* the log entries <<"patch", n2, n1>>: the same-type pairs patch was given
PatchEntries == {i \in 1..Len(w.log) : w.log[i][1] = "patch"}

\* the log entries <<"mount", n2, n1>>, n1 # 0: the pairs that were not same-type
ReplaceEntries == {i \in 1..Len(w.log) : w.log[i][1] = "mount" /\ w.log[i][3] # 0}

\* the host calls of the log made on the host node el
CallsOn(ops, el) == Cardinality({i \in 1..Len(w.log) : w.log[i][1] \in ops /\ w.log[i][2] = el})

\* C2: patch(n1, n2) with n1 === n2 makes no host call, invokes no hook and
\* changes no field of a vnode or an instance: the world is what it was.
SelfPatchNoop == pc = "self" => w = Before

\* a self patch of a mounted component inside a fragment
SelfPatchNoopWitness ==
    /\ pc = "self"
    /\ inp.ctx = "unkeyed"
    /\ inp.old.kind = "Leaf"
    /\ Len(w.inst) > 0
    /\ w.vn[w.root].el # 0

\* n2 holds the host handle n1 held, which was neither created nor removed
SameHandle(n1, n2) ==
    /\ w.vn[n2].el = Before.vn[n1].el
    /\ w.vn[n2].el # 0
    /\ w.vn[n2].type = "Fragment" => w.vn[n2].anchor = Before.vn[n1].anchor
    /\ CallsOn({"create", "remove"}, Before.vn[n1].el) = 0
    /\ w.par[Before.vn[n1].el] = Before.par[Before.vn[n1].el]

\* C3 as stated: every same-type pair patch was given ends with n2.el === n1.el
\* (and the anchor of a fragment), no host node created or removed for it.
IdentityPreservedAll ==
    Patched => \A i \in PatchEntries : SameHandle(w.log[i][3], w.log[i][2])

\* C3: a same-type pair of elements, texts, comments or fragments ends with
\* n2.el === n1.el (and the anchor of a fragment), the host node neither created
\* nor removed, through a sequence of patches; the el of a component is the el
\* of the root its render returned.
IdentityPreserved ==
    Patched =>
        \A i \in PatchEntries :
            IF w.vn[w.log[i][2]].type \in {"Element", "Text", "Comment", "Fragment"}
            THEN SameHandle(w.log[i][3], w.log[i][2])
            ELSE w.vn[w.log[i][2]].type = "Component" =>
                     w.vn[w.log[i][2]].el =
                         w.vn[w.inst[w.vn[w.log[i][2]].component].subTree].el

\* the second patch of a span whose text was set in place both times
IdentityPreservedWitness ==
    /\ pc = "back"
    /\ inp.ctx = "unkeyed"
    /\ inp.old.kind = "Span"
    /\ inp.new.kind = "Span"
    /\ \E i \in PatchEntries :
          /\ w.vn[w.log[i][2]].type = "Element"
          /\ CallsOn({"setElementText"}, w.vn[w.log[i][2]].el) = 1
          /\ w.vn[w.log[i][2]].el = AfterMount.vn[AfterMount.vn[AfterMount.root].children[2]].el

RECURSIVE FirstHost(_, _)
\* the first and the last host node of a vnode
FirstHost(x, v) ==
    IF x.vn[v].type = "Component" THEN FirstHost(x, x.inst[x.vn[v].component].subTree)
    ELSE x.vn[v].el

RECURSIVE LastHost(_, _)
LastHost(x, v) ==
    IF x.vn[v].type = "Component" THEN LastHost(x, x.inst[x.vn[v].component].subTree)
    ELSE IF x.vn[v].anchor # 0 THEN x.vn[v].anchor
    ELSE x.vn[v].el

\* the host nodes of a vnode
HostNodes(x, v) ==
    LET sibs == x.kids[x.par[FirstHost(x, v)]]
    IN  SubSeq(sibs, IndexOf(sibs, FirstHost(x, v)), IndexOf(sibs, LastHost(x, v)))

HostPrev(x, el) ==
    LET sibs == x.kids[x.par[el]]
    IN  IF IndexOf(sibs, el) = 1 THEN 0 ELSE sibs[IndexOf(sibs, el) - 1]

\* C7: when patch is given a pair that is not same-type, the old node is
\* unmounted and all its host nodes are removed, and the new node is mounted in
\* its place: in the same parent, before the host node that followed the old
\* node's last host node and after the one that preceded its first.
ReplacedInPlace ==
    Patched =>
        /\ ~w.err
        /\ \A i \in ReplaceEntries :
              LET n2 == w.log[i][2]
                  n1 == w.log[i][3]
              IN  /\ \E j \in 1..(i - 1) : w.log[j] = <<"unmount", n1, 0>>
                  /\ \A h \in SeqSet(HostNodes(Before, n1)) :
                        w.par[h] = 0 /\ CallsOn({"remove"}, h) = 1
                  /\ Before.vn[n1].type = "Component" =>
                        w.inst[Before.vn[n1].component].isUnmounted
                  /\ w.par[FirstHost(w, n2)] = Before.par[FirstHost(Before, n1)]
                  /\ hostNextSibling(w, LastHost(w, n2)) =
                         hostNextSibling(Before, LastHost(Before, n1))
                  /\ HostPrev(w, FirstHost(w, n2)) = HostPrev(Before, FirstHost(Before, n1))

\* a fragment between two texts is replaced by a component
ReplacedInPlaceWitness ==
    /\ pc = "new"
    /\ inp.ctx = "unkeyed"
    /\ inp.old.kind = "Fragment"
    /\ inp.new.kind = "Leaf"
    /\ \E i \in ReplaceEntries :
          /\ Before.vn[w.log[i][3]].type = "Fragment"
          /\ Len(HostNodes(Before, w.log[i][3])) = 3
          /\ hostNextSibling(w, LastHost(w, w.log[i][2])) # 0
          /\ HostPrev(w, FirstHost(w, w.log[i][2])) # 0

\* the same-type element pairs whose two nodes are flagged TEXT only and have
\* the same props and text children
TextOnlyEntries ==
    {i \in PatchEntries :
        /\ w.vn[w.log[i][2]].type = "Element"
        /\ w.vn[w.log[i][2]].patchFlag = TEXT
        /\ Before.vn[w.log[i][3]].patchFlag = TEXT
        /\ w.vn[w.log[i][2]].props = Before.vn[w.log[i][3]].props
        /\ w.vn[w.log[i][2]].ckind = "text"
        /\ Before.vn[w.log[i][3]].ckind = "text"}

TextDiffers(i) == w.vn[w.log[i][2]].text # Before.vn[w.log[i][3]].text

\* the element of entry i was patched with optimized false and has no
\* dynamicChildren: its children were diffed in full
FullDiff(i) ==
    /\ ~w.vn[w.log[i][2]].hasDyn
    /\ \E j \in 1..Len(w.log) : w.log[j] = <<"patchElement", w.log[i][2], FALSE>>

RootProps == {0, 1}

\* the number of reactive state changes so far, over all instances
RECURSIVE ChangesUpTo(_, _)
ChangesUpTo(w0, k) == IF k = 0 THEN 0 ELSE w0.inst[k].state + ChangesUpTo(w0, k - 1)

Changes(w0) == ChangesUpTo(w0, Len(w0.inst))

\* the root vnode h(Root, props): `shared` passes the props object the root
\* was mounted with (the same reference), otherwise the object is a new one
RootTpl(type, n, shared) ==
    Tpl("Component", type, 0, [x \in {"n"} |-> n], "none", 0, <<>>, 0, "no", <<>>,
        IF shared THEN 2 ELSE 0)

\* the number of root vnodes rendered so far
RootRenders(w0) ==
    Cardinality({v \in 1..Len(w0.vn) : w0.vn[v].type = "Component" /\ w0.vn[v].tag = inp.type})

\* the log is kept per flush window: the first event after a flush starts anew
Window(w0) ==
    IF w0.log # <<>> /\ w0.log[Len(w0.log)] = <<"flushed", 0, 0>>
    THEN [w0 EXCEPT !.log = <<>>]
    ELSE w0

\* render(vnode, container) within the current window
RenderInWindow(w0, t) ==
    LET rendered(r) == doRender(r.w, r.id)
    IN  rendered(allocTree(Window(w0), t))

\* a trigger that queues the update job whether or not it is pending
triggerEnqueuesAgain(w0, uid) ==
    LET changed(x) ==
            IF x.inst[uid].updateActive
            THEN Log([x EXCEPT !.queue = Append(@, uid)], "queueJob", uid, 0)
            ELSE x
    IN  changed([Window(w0) EXCEPT !.inst[uid].state = @ + 1])

\* a trigger that runs the update at once
triggerRunsUpdate(w0, uid) ==
    LET changed(x) == IF x.inst[uid].updateActive THEN componentUpdateFn(x, uid) ELSE x
    IN  changed([Window(w0) EXCEPT !.inst[uid].state = @ + 1])

\* a reactive dependency of the instance's render changes: the scheduler of
\* its effect queues its update job
trigger(w0, uid) ==
    LET changed(x) == IF x.inst[uid].updateActive THEN queueJob(x, uid) ELSE x
    IN  changed([Window(w0) EXCEPT !.inst[uid].state = @ + 1])

InitComp ==
    /\ inp \in [type : {"Parent", "Hoist"}, n : {0, 1}, compiled : BOOLEAN]
    /\ w = World0(TRUE, inp.compiled)
    /\ pc = "start"
    /\ hist = <<>>

MountRoot ==
    /\ pc = "start"
    /\ w' = RenderInWindow(w, RootTpl(inp.type, inp.n, TRUE))
    /\ pc' = "MountRoot"
    /\ hist' = <<w>>
    /\ UNCHANGED inp

\* the application renders the root again, with new props or with the props
\* object it was mounted with
RenderRoot ==
    /\ pc # "start"
    /\ RootRenders(w) <= MaxRenders
    /\ \E n \in RootProps, shared \in BOOLEAN :
          /\ shared => n = inp.n
          /\ w' = RenderInWindow(w, RootTpl(inp.type, n, shared))
    /\ pc' = "RenderRoot"
    /\ hist' = <<w>>
    /\ UNCHANGED inp

\* state of a mounted instance changes
Trigger ==
    /\ pc # "start"
    /\ Changes(w) < MaxState
    /\ \E uid \in 1..Len(w.inst) : w' = trigger(w, uid)
    /\ pc' = "Trigger"
    /\ hist' = <<w>>
    /\ UNCHANGED inp

\* the scheduler flushes the queued jobs
Flush ==
    /\ pc # "start"
    /\ w.queue # <<>>
    /\ w' = Log(doFlushJobs(w), "flushed", 0, 0)
    /\ pc' = "Flush"
    /\ hist' = <<w>>
    /\ UNCHANGED inp

NextComp == MountRoot \/ RenderRoot \/ Trigger \/ Flush

SpecComp == InitComp /\ [][NextComp]_vars

(* ----------------- what a component update is claimed to do ------------ *)

\* the events of the last action
ActionLog ==
    IF Window(Before).log = <<>> THEN w.log
    ELSE SubSeq(w.log, Len(Before.log) + 1, Len(w.log))

\* the component pairs the last action patched whose props are one object
SamePropsEntries ==
    {i \in 1..Len(ActionLog) :
        /\ ActionLog[i][1] = "patch"
        /\ w.vn[ActionLog[i][2]].type = "Component"
        /\ PropsRef(w, ActionLog[i][2]) = PropsRef(w, ActionLog[i][3])}

HostOps ==
    {"create", "insert", "remove", "setText", "setElementText", "patchProp", "patchProps"}

\* C9: a render that patches a mounted component with a node holding the same
\* props object does not run the component's render, runs no hook of it, does
\* not run, queue or drop its update job, makes no host call on its host
\* nodes, and changes only n2.component, n2.el and instance.vnode; when the
\* component is the root, the render makes no host call at all.
NoUpdateBookkeeping ==
    pc = "RenderRoot" =>
        \A i \in SamePropsEntries :
            LET n2 == ActionLog[i][2]
                n1 == ActionLog[i][3]
                c == Before.vn[n1].component
            IN  /\ w.vn[n2].component = c
                /\ w.vn[n2].el = Before.vn[n1].el
                /\ w.inst[c] = [Before.inst[c] EXCEPT !.vnode = n2]
                /\ \A j \in 1..Len(ActionLog) :
                      /\ ActionLog[j] \notin {<<"render", c, 0>>, <<"queueJob", c, 0>>}
                      /\ ~(ActionLog[j][1] = "hook" /\ ActionLog[j][3] = c)
                      /\ ~(ActionLog[j][1] = "update" /\ ActionLog[j][2] = c)
                      /\ ~(ActionLog[j][1] \in HostOps
                           /\ ActionLog[j][2] \in SeqSet(HostNodes(Before, n1)))
                /\ Has(w.queue, c) = Has(Before.queue, c)
                /\ HostNodes(w, n2) = HostNodes(Before, n1)
                /\ \A h \in SeqSet(HostNodes(w, n2)) :
                      w.text[h] = Before.text[h] /\ w.attrs[h] = Before.attrs[h]
                /\ n1 = Before.root =>
                      /\ ActionLog = << <<"patch", n2, n1>> >>
                      /\ w.inst = [Before.inst EXCEPT ![c].vnode = n2]
                      /\ w.queue = Before.queue
                      /\ <<w.kids, w.par, w.kind, w.text, w.attrs>> =
                             <<Before.kids, Before.par, Before.kind, Before.text, Before.attrs>>

\* the parent re-rendered and patched its child, whose props are hoisted and
\* whose update job was pending: the job is still pending, nothing rendered
NoUpdateBookkeepingWitness ==
    /\ pc = "RenderRoot"
    /\ inp.type = "Hoist"
    /\ \E i \in SamePropsEntries :
          /\ ActionLog[i][3] # Before.root
          /\ Has(w.queue, Before.vn[ActionLog[i][3]].component)
          /\ Count(ActionLog, "render") = 1
          /\ Count(ActionLog, "setText") = 1

\* the updates of the window of a component whose job was pending, after which
\* the component was neither triggered nor updated again
PendingUpdates ==
    {u \in 1..Len(w.log) :
        /\ w.log[u][1] = "update"
        /\ w.log[u][3] = TRUE
        /\ \A j \in (u + 1)..Len(w.log) :
              w.log[j] # <<"queueJob", w.log[u][2], 0>>
              /\ ~(w.log[j][1] = "update" /\ w.log[j][2] = w.log[u][2])}

\* the index of the last queueJob of the component before its update
QueuedAt(u) ==
    CHOOSE q \in 1..u :
        /\ w.log[q] = <<"queueJob", w.log[u][2], 0>>
        /\ \A j \in (q + 1)..u : w.log[j] # w.log[q]

\* C10: a component whose update job is pending when its parent patches it
\* with a node that needs an update renders exactly once from the trigger to
\* the end of the flush window, in the parent's patch; its job is dropped and
\* instance.next is consumed.
UpdatedOnce ==
    \A u \in PendingUpdates :
        LET c == w.log[u][2]
        IN  /\ \E q \in 1..u : w.log[q] = <<"queueJob", c, 0>>
            /\ Cardinality({r \in QueuedAt(u)..Len(w.log) : w.log[r] = <<"render", c, 0>>}) = 1
            /\ \E r \in u..Len(w.log) : w.log[r] = <<"render", c, 0>>
            /\ ~Has(w.queue, c)
            /\ w.inst[c].next = 0

\* parent and child were both triggered; the flush ran the parent's job, which
\* updated the child, and the window is over with one render of the child
UpdatedOnceWitness ==
    /\ pc = "Flush"
    /\ inp.type = "Parent"
    /\ \E u \in PendingUpdates :
          /\ w.log[u][2] = 2
          /\ \E q \in 1..u : w.log[q] = <<"queueJob", 1, 0>>
          /\ Cardinality({r \in QueuedAt(u)..Len(w.log) : w.log[r][1] = "render"}) = 2

(* --------------------- the update job and the scheduler ---------------- *)

\* the instance whose state the last Trigger changed
Triggered == CHOOSE c \in 1..Len(w.inst) : w.inst[c].state # Before.inst[c].state

\* the number of times the render callback of c ran in the last action
RendersOf(c) == Cardinality({i \in 1..Len(ActionLog) : ActionLog[i] = <<"render", c, 0>>})

NoDuplicates(s) == \A i, j \in 1..Len(s) : i # j => s[i] # s[j]

RECURSIVE IsAncestor(_, _)
\* the instance p is above the instance c in the component tree
IsAncestor(p, c) ==
    w.inst[c].parent # 0 /\ (w.inst[c].parent = p \/ IsAncestor(p, w.inst[c].parent))

\* the indexes of the log entries of the last action with this op and uid
EntriesOf(op, c) == {i \in 1..Len(ActionLog) : ActionLog[i] = <<op, c, 0>>}

\* C12: a child instance is created after its parent and has the greater uid,
\* the id of a job is the uid of its instance, the jobs of a flush run in
\* ascending id order, and when the jobs of an instance and of a descendant
\* are both queued the instance's job runs before the descendant's job and
\* before any render of the descendant.
ParentBeforeChild ==
    /\ \A c \in 1..Len(w.inst) : w.inst[c].parent < c /\ w.inst[c].jobId = c
    /\ pc = "Flush" =>
          /\ \A i, j \in 1..Len(ActionLog) :
                (i < j /\ ActionLog[i][1] = "job" /\ ActionLog[j][1] = "job") =>
                    ActionLog[i][2] < ActionLog[j][2]
          /\ \A p, c \in SeqSet(Before.queue) :
                IsAncestor(p, c) =>
                    /\ EntriesOf("job", p) # {}
                    /\ \A i \in EntriesOf("job", p), j \in EntriesOf("job", c) \cup EntriesOf("render", c) :
                          i < j

\* the child was queued before its parent; the flush ran the parent's job and
\* then the child's
ParentBeforeChildWitness ==
    /\ pc = "Flush"
    /\ Before.queue = <<2, 1>>
    /\ EntriesOf("job", 1) # {}
    /\ EntriesOf("job", 2) # {}
    /\ \A i \in EntriesOf("job", 1), j \in EntriesOf("job", 2) : i < j

\* the text the host shows for a Leaf instance is the text of its last render
Shown(x, c) == x.text[x.vn[x.inst[c].subTree].el]

\* C13: a reactive change runs no render, no patch, no hook and no host call
\* inside the mutating call: it leaves the host tree and every subtree as they
\* were and the instance's update job in the queue; the flush renders the
\* instance with its state.
TriggerDefers ==
    /\ pc = "Trigger" =>
          /\ \A i \in 1..Len(ActionLog) : ActionLog[i] = <<"queueJob", Triggered, 0>>
          /\ Has(w.queue, Triggered)
          /\ \A c \in 1..Len(w.inst) :
                /\ w.inst[c].renders = Before.inst[c].renders
                /\ w.inst[c].subTree = Before.inst[c].subTree
          /\ <<w.kids, w.par, w.kind, w.text, w.attrs, w.vn, w.post>> =
                 <<Before.kids, Before.par, Before.kind, Before.text, Before.attrs, Before.vn,
                   Before.post>>
    /\ pc = "Flush" =>
          \A c \in 1..Len(w.inst) :
              w.inst[c].type = "Leaf" =>
                  Shown(w, c) = 10 * Get(w.inst[c].props, "msg") + w.inst[c].state

\* the child's state changed: its job is queued and the host still shows the
\* text of the last render
TriggerDefersWitness ==
    /\ pc = "Trigger"
    /\ Triggered = 2
    /\ w.queue = <<2>>
    /\ Shown(w, 2) # 10 * Get(w.inst[2].props, "msg") + w.inst[2].state


(* ------------- the life of the components of a mounted tree ------------ *)

\* the children of the tree: a component, a component whose root holds a
\* component, a component whose render callback calls render, a component
\* whose render callback throws, and an element that holds a component
LifeItems == {"Leaf", "Parent", "Nest", "Throw", "Box"}

\* longest list of children of the tree
MaxItems == 2

\* most reactive state changes in the life of a tree
MaxPending == 1

LifeLists == UNION {[1..n -> LifeItems] : n \in 1..MaxItems}

LifeComponent(type) ==
    Tpl("Component", type, 0, [x \in {"msg", "n"} |-> 1], "none", 0, <<>>, 0, "no", <<>>, 0)

LifeItem(it) ==
    IF it = "Box"
    THEN Tpl("Element", "section", 0, EmptyProps, "array", 0, <<LifeComponent("Leaf")>>, 0, "no",
             <<>>, 0)
    ELSE LifeComponent(it)

\* the tree: a <div> or a fragment over the children, compiled (a block, the
\* fragment a stable one) or written by hand
LifeTree(owner, items, compiled) ==
    Tpl(owner, IF owner = "Element" THEN "div" ELSE "", 0, EmptyProps, "array", 0,
        AsSeq([i \in 1..Len(items) |-> LifeItem(items[i])]),
        IF owner = "Fragment" /\ compiled THEN STABLE_FRAGMENT ELSE 0,
        IF compiled THEN "block" ELSE "no", <<>>, 0)

\* the events of an action are logged from an empty log
Fresh(w0) == [w0 EXCEPT !.log = <<>>]

InitLife ==
    /\ inp \in [owner : {"Element", "Fragment"}, items : LifeLists, compiled : BOOLEAN]
    /\ w = World0(TRUE, inp.compiled)
    /\ pc = "start"
    /\ hist = <<>>

\* the container holds the tree
TreeMounted == w.root # 0 /\ w.vn[w.root].type # "Text"

\* render(tree, container)
MountTree ==
    /\ pc = "start"
    /\ w' = RenderTpl(w, LifeTree(inp.owner, inp.items, inp.compiled))
    /\ pc' = "Mount"
    /\ hist' = <<w>>
    /\ UNCHANGED inp

\* state of a mounted instance changes
TriggerLife ==
    /\ TreeMounted
    /\ Changes(w) < MaxPending
    /\ \E uid \in 1..Len(w.inst) : w' = trigger(Fresh(w), uid)
    /\ pc' = "Trigger"
    /\ hist' = <<w>>
    /\ UNCHANGED inp

\* render(null, container)
UnmountTree ==
    /\ TreeMounted
    /\ w' = doRender(Fresh(w), 0)
    /\ pc' = "Unmount"
    /\ hist' = <<w>>
    /\ UNCHANGED inp

\* render(text, container): the tree is replaced by a text
ReplaceTree ==
    /\ TreeMounted
    /\ w' = RenderTpl(w, Tpl("Text", "", 0, EmptyProps, "text", 1, <<>>, 0, "no", <<>>, 0))
    /\ pc' = "Replace"
    /\ hist' = <<w>>
    /\ UNCHANGED inp

\* the scheduler flushes the queued jobs
FlushLife ==
    /\ pc # "start"
    /\ ~w.thrown
    /\ w.queue # <<>>
    /\ w' = doFlushJobs(Fresh(w))
    /\ pc' = "Flush"
    /\ hist' = <<w>>
    /\ UNCHANGED inp

NextLife == MountTree \/ TriggerLife \/ UnmountTree \/ ReplaceTree \/ FlushLife

SpecLife == InitLife /\ [][NextLife]_vars

(* ------------------ what the life cycle is claimed to be --------------- *)

\* the log entry is a callback of the post-render queue
IsPostHook(e) == e[1] = "hook" /\ e[2] \in {"m", "u", "um"}

\* C14 as stated: in every pass, nested calls of render included, a callback
\* of the post-render queue runs after all patching of the pass: no mount, no
\* patch, no unmount, no render and no host call follows it.
HooksAfterPatching ==
    \A i, j \in 1..Len(w.log) : (i < j /\ IsPostHook(w.log[i])) => IsPostHook(w.log[j])

RECURSIVE InstancesUnder(_, _)
\* the instances whose component node lies in the subtree of v, through
\* children and through the subtrees of components
InstancesUnder(x, v) ==
    IF x.vn[v].type = "Component"
    THEN {x.vn[v].component} \cup InstancesUnder(x, x.inst[x.vn[v].component].subTree)
    ELSE UNION {InstancesUnder(x, x.vn[v].children[i]) : i \in 1..Len(x.vn[v].children)}

\* the vnodes the last action called unmount on
Unmounted == {w.log[i][2] : i \in {j \in 1..Len(w.log) : w.log[j][1] = "unmount"}}

\* the number of times the callback cb of the instance c ran in the last action
HookRuns(cb, c) == Cardinality({i \in 1..Len(w.log) : w.log[i] = <<"hook", cb, c>>})

NoRenderAfterUnmount ==
    pc = "Flush" =>
        \A c \in 1..Len(w.inst) :
            ~Before.inst[c].scopeActive =>
                /\ w.inst[c] = Before.inst[c]
                /\ ~Has(w.queue, c)
                /\ \A i \in 1..Len(w.log) :
                      /\ w.log[i] \notin {<<"render", c, 0>>, <<"job", c, 0>>}
                      /\ w.log[i][1] \in {"patch", "mount"} =>
                             w.log[i][2] \notin {Before.inst[c].subTree}
                             /\ w.log[i][3] \notin {Before.inst[c].subTree}

\* the flush met the job of an instance that was unmounted after its trigger
NoRenderAfterUnmountWitness ==
    /\ pc = "Flush"
    /\ \E c \in SeqSet(Before.queue) :
          /\ Before.inst[c].isUnmounted
          /\ Before.inst[c].state > 0
          /\ w.inst[c].renders = 1

\* the instances of the tree whose render callback throws
Throwing == {c \in 1..Len(w.inst) : w.inst[c].type = "Throw"}

\* C17: when the render callback of a component throws during the mount, the
\* exception reaches the caller of render: nothing runs after the component's
\* beforeMount hook, the post-render queue is not flushed and container._vnode
\* is not set; the instance is not mounted, has no subtree, and no mounted hook
\* of it is queued or run.
RenderThrowPropagates ==
    (pc = "Mount" /\ Has(inp.items, "Throw")) =>
        /\ w.thrown
        /\ w.root = 0
        /\ Cardinality(Throwing) = 1
        /\ \A c \in Throwing :
              /\ ~w.inst[c].isMounted
              /\ w.inst[c].subTree = 0
              /\ w.inst[c].renders = 0
              /\ ~Has(w.post, <<"m", c>>)
              /\ HookRuns("m", c) = 0
              /\ w.log[Len(w.log)] = <<"hook", "bm", c>>
              /\ c = Len(w.inst)

\* the sibling mounted before the throwing component has its mounted hook in
\* the queue, which nobody flushed
RenderThrowPropagatesWitness ==
    /\ pc = "Mount"
    /\ inp.items = <<"Leaf", "Throw">>
    /\ w.thrown
    /\ w.post = << <<"m", 1>> >>
    /\ w.inst[1].isMounted
    /\ ~w.inst[2].isMounted


(* --------------------- lists with duplicate keys ----------------------- *)

\* number of distinct keys a list with duplicates draws from
NumDupKeys == 3

\* longest list with duplicates that is diffed
MaxDupLen == 3

HasDuplicates(l) == \E i, j \in 1..Len(l) : i # j /\ l[i] = l[j]

DupLists == UNION {[1..n -> 1..NumDupKeys] : n \in 0..MaxDupLen}

\* the old list, the new list or both repeat a key
InitDup ==
    /\ inp \in {i \in [a : DupLists, b : DupLists, owner : {"Element", "Fragment"}, dev : BOOLEAN] :
                   HasDuplicates(i.a) \/ HasDuplicates(i.b)}
    /\ w = World0(inp.dev, FALSE)
    /\ pc = "start"
    /\ hist = <<>>

\* the list A is mounted, diffed to B and diffed back, as in SpecKeyed
SpecDup == InitDup /\ [][NextKeyed]_vars

\* C18 as stated, in a development build: a diff of a list that repeats a key
\* reports a duplicate-key warning.
DuplicateKeysWarned ==
    (Diffed /\ w.dev /\ (HasDuplicates(OldKeys) \/ HasDuplicates(NewKeys))) =>
        Count(w.log, "warn") > 0

\* C19 as stated: a diff of lists that repeat a key raises no exception and
\* leaves in the container the host nodes of the new list, one for each child,
\* in new-list order, and no host node of an old child that is not in the
\* result.
DuplicateKeysConsistent ==
    Diffed =>
        /\ ~w.err
        /\ ~w.thrown
        /\ HostRegion(w, w.root) = NewEls
        /\ \A i, j \in 1..Len(NewEls) : i # j => NewEls[i] # NewEls[j]
        /\ \A i \in 1..Len(OldEls) : ~Has(NewEls, OldEls[i]) => w.par[OldEls[i]] = 0


(* ------------- a host that provides the required operations ------------ *)

\* the renderer is created with host operations that leave out
\* insertStaticContent; the nodes and contexts are those of SpecPatch
InitHost ==
    /\ inp \in {i \in [old : Items, new : Items, ctx : Ctxs, dev : BOOLEAN, compiled : BOOLEAN] :
                   /\ i.ctx = "block" => Trackable(i.old) /\ Trackable(i.new) /\ i.compiled
                   /\ i.ctx = "devroot" => i.dev /\ i.compiled
                   /\ (i.old.kind = "Static" /\ i.new.kind = "Static") => i.dev}
    /\ w = [World0(inp.dev, inp.compiled) EXCEPT !.staticOp = FALSE]
    /\ pc = "start"
    /\ hist = <<>>

\* the old node is mounted
MountHost ==
    /\ pc = "start"
    /\ w' = RenderTpl(w, TreeOf(inp.old, inp.ctx))
    /\ pc' = "old"
    /\ hist' = Append(hist, w)
    /\ UNCHANGED inp

\* the old node is patched to the new one
PatchHost ==
    /\ pc = "old"
    /\ ~w.thrown
    /\ w' = RenderTpl(w, TreeOf(inp.new, inp.ctx))
    /\ pc' = "new"
    /\ hist' = Append(hist, w)
    /\ UNCHANGED inp

\* render(null, container)
UnmountHost ==
    /\ pc \in {"old", "new"}
    /\ ~w.thrown
    /\ w' = doRender(Fresh(w), 0)
    /\ pc' = "gone"
    /\ hist' = Append(hist, w)
    /\ UNCHANGED inp

NextHost == MountHost \/ PatchHost \/ UnmountHost

SpecHost == InitHost /\ [][NextHost]_vars

\* C20 as stated: with the required host operations only, every mount, patch
\* and unmount completes without an error: the render returns, the container
\* holds the rendered tree, and after the unmount it holds nothing.
RequiredOpsSuffice ==
    /\ ~w.thrown
    /\ ~w.err
    /\ pc \in {"old", "new"} => w.root # 0 /\ w.kids[Container] # <<>>
    /\ pc = "gone" => w.root = 0 /\ w.kids[Container] = <<>>


(* --------------------- texts, comments and props ----------------------- *)

\* the same-type pairs of texts and of comments patch was given
TextEntries == {i \in PatchEntries : w.vn[w.log[i][2]].type \in {"Text", "Comment"}}

\* the pair of entry i reuses the host node: n2.el === n1.el, which was neither
\* created, inserted nor removed and stands where it stood
Reused(i) ==
    /\ w.vn[w.log[i][2]].el = Before.vn[w.log[i][3]].el
    /\ w.vn[w.log[i][2]].el # 0
    /\ CallsOn({"create", "insert", "remove"}, w.vn[w.log[i][2]].el) = 0
    /\ w.par[w.vn[w.log[i][2]].el] = Before.par[w.vn[w.log[i][2]].el]

\* C21 as stated: a same-type pair of texts or of comments reuses the host node
\* and sets its content if and only if the new content differs from the old.
ContentUpdatedIffDiffers ==
    Patched =>
        \A i \in TextEntries :
            /\ Reused(i)
            /\ CallsOn({"setText"}, w.vn[w.log[i][2]].el) = IF TextDiffers(i) THEN 1 ELSE 0
            /\ w.text[w.vn[w.log[i][2]].el] = w.vn[w.log[i][2]].text

\* C21: a same-type pair of texts or of comments reuses the host node (no
\* create, insert or remove); the content of a text's host node is set, once and
\* to the new text, if and only if the new text differs from the old; the
\* content of a comment's host node is never set, it stays what it was.
TextCommentPatch ==
    Patched =>
        \A i \in TextEntries :
            /\ Reused(i)
            /\ IF w.vn[w.log[i][2]].type = "Text"
               THEN /\ CallsOn({"setText"}, w.vn[w.log[i][2]].el) =
                           IF TextDiffers(i) THEN 1 ELSE 0
                    /\ w.text[w.vn[w.log[i][2]].el] = w.vn[w.log[i][2]].text
               ELSE /\ CallsOn({"setText"}, w.vn[w.log[i][2]].el) = 0
                    /\ w.text[w.vn[w.log[i][2]].el] =
                           Before.text[w.vn[w.log[i][2]].el]

\* between two texts that are reused untouched, a comment whose content changed
\* is reused and keeps its host content
TextCommentPatchWitness ==
    /\ pc = "new"
    /\ inp.ctx = "unkeyed"
    /\ inp.old.kind = "Comment"
    /\ inp.new.kind = "Comment"
    /\ \E i \in TextEntries :
          /\ w.vn[w.log[i][2]].type = "Comment"
          /\ TextDiffers(i)
          /\ Reused(i)
          /\ w.text[w.vn[w.log[i][2]].el] # w.vn[w.log[i][2]].text
    /\ \E i \in TextEntries : w.vn[w.log[i][2]].type = "Text" /\ Reused(i)

(* -------------------- the children of elements and fragments ----------- *)

\* the patches of SpecPatch, also made while a hot reload of a development
\* build is in progress
InitReload ==
    /\ inp \in {i \in [old : Items, new : Items, ctx : Ctxs, dev : BOOLEAN, compiled : BOOLEAN,
                       hmr : BOOLEAN] :
                   /\ i.ctx = "block" => Trackable(i.old) /\ Trackable(i.new) /\ i.compiled
                   /\ i.ctx = "devroot" => i.dev /\ i.compiled
                   /\ (i.old.kind = "Static" /\ i.new.kind = "Static") => i.dev
                   /\ i.hmr => i.dev}
    /\ w = [World0(inp.dev, inp.compiled) EXCEPT !.hmr = inp.hmr]
    /\ pc = "start"
    /\ hist = <<>>

SpecReload == InitReload /\ [][NextPatch]_vars

\* the entries <<"patchElement", n2, optimized>>: the element pairs patched
ElementEntries == {i \in 1..Len(w.log) : w.log[i][1] = "patchElement"}

\* the calls logged as `op` for the children of the vnode n2
ChildrenCalls(op, n2) ==
    Cardinality({j \in 1..Len(w.log) : w.log[j][1] = op /\ w.log[j][2] = n2})

\* C23 as stated: an element patch goes through patchBlockChildren exactly
\* when the new node has dynamicChildren, through patchChildren only when it
\* has none, and never through both.
ChildrenFastIffDynamic ==
    Patched =>
        \A i \in ElementEntries :
            LET n2 == w.log[i][2]
            IN  /\ ChildrenCalls("patchBlockChildren", n2) = IF w.vn[n2].hasDyn THEN 1 ELSE 0
                /\ ChildrenCalls("patchChildren", n2) > 0 => ~w.vn[n2].hasDyn
                /\ ChildrenCalls("patchBlockChildren", n2) + ChildrenCalls("patchChildren", n2)
                       <= 1

\* C23: an element patch goes through patchBlockChildren, once, exactly when
\* the new node has dynamicChildren and no hot reload is in progress; through
\* patchChildren, once, exactly when no hot reload is in progress, the node has
\* no dynamicChildren and the patch is not optimized, or when a hot reload is
\* in progress; and never through both.
ChildrenFastOrFull ==
    Patched =>
        \A i \in ElementEntries :
            LET n2 == w.log[i][2]
            IN  /\ ChildrenCalls("patchBlockChildren", n2) =
                       IF w.vn[n2].hasDyn /\ ~hmrUpdating(w) THEN 1 ELSE 0
                /\ ChildrenCalls("patchChildren", n2) =
                       IF hmrUpdating(w) \/ (~w.vn[n2].hasDyn /\ ~w.log[i][3]) THEN 1 ELSE 0
                /\ ChildrenCalls("patchBlockChildren", n2) + ChildrenCalls("patchChildren", n2)
                       <= 1

\* a block element patched through its dynamicChildren, with the element it
\* tracks patched through neither
ChildrenFastOrFullWitness ==
    /\ pc = "new"
    /\ ~hmrUpdating(w)
    /\ inp.ctx = "block"
    /\ inp.old.kind = "SpanText"
    /\ inp.new = inp.old
    /\ \E i \in ElementEntries :
          /\ w.vn[w.log[i][2]].hasDyn
          /\ Len(w.vn[w.log[i][2]].dyn) = 1
          /\ ChildrenCalls("patchBlockChildren", w.log[i][2]) = 1
          /\ ChildrenCalls("patchChildren", w.log[i][2]) = 0
    /\ \E i \in ElementEntries :
          /\ ~w.vn[w.log[i][2]].hasDyn
          /\ ChildrenCalls("patchBlockChildren", w.log[i][2]) = 0
          /\ ChildrenCalls("patchChildren", w.log[i][2]) = 0

\* the same-type fragment pairs patch was given, and the fragments it mounted
FragmentPatches == {i \in PatchEntries : w.vn[w.log[i][2]].type = "Fragment"}

FragmentMounts ==
    {i \in 1..Len(w.log) : w.log[i][1] = "mount" /\ w.vn[w.log[i][2]].type = "Fragment"}

RECURSIVE FlatHost(_, _, _)
\* the host nodes of the children from index i on, in order
FlatHost(x, children, i) ==
    IF i > Len(children) THEN <<>>
    ELSE HostNodes(x, children[i]) \o FlatHost(x, children, i + 1)

\* both anchors of the old fragment are the new one's, neither created,
\* inserted nor removed
AnchorsReused(n1, n2) ==
    /\ SameHandle(n1, n2)
    /\ w.vn[n2].anchor # 0
    /\ CallsOn({"create", "insert", "remove"}, w.vn[n2].el) = 0
    /\ CallsOn({"create", "insert", "remove"}, w.vn[n2].anchor) = 0

\* the fragment n2 was patched through patchBlockChildren only
ByBlock(n2) ==
    /\ ChildrenCalls("patchBlockChildren", n2) = 1
    /\ ChildrenCalls("patchChildren", n2) = 0

\* the fragment n2 was patched through patchChildren only, the end anchor given
\* as the anchor
ByChildren(n2) ==
    /\ ChildrenCalls("patchBlockChildren", n2) = 0
    /\ ChildrenCalls("patchChildren", n2) = 1
    /\ \E j \in 1..Len(w.log) : w.log[j] = <<"patchChildren", n2, w.vn[n2].anchor>>

\* the new patchFlag is positive with STABLE_FRAGMENT and both have dynamicChildren
StableBlocks(n1, n2) ==
    /\ w.vn[n2].patchFlag > 0
    /\ HasBit(w.vn[n2].patchFlag, STABLE_FRAGMENT)
    /\ w.vn[n2].hasDyn
    /\ Before.vn[n1].hasDyn

\* a fragment mounted: two anchors created, the start anchor inserted, then
\* the end anchor, then the children mounted between them
MountedBetweenAnchors(i) ==
    LET n2 == w.log[i][2]
        el == w.vn[n2].el
        anchor == w.vn[n2].anchor
        sibs == w.kids[w.par[el]]
    IN  /\ el > Len(Before.kids) /\ anchor > Len(Before.kids) /\ el # anchor
        /\ \E j \in (i + 1)..(Len(w.log) - 1) :
              /\ w.log[j][1] = "insert" /\ w.log[j][2] = el
              /\ w.log[j + 1][1] = "insert" /\ w.log[j + 1][2] = anchor
              /\ \A c \in SeqSet(w.vn[n2].children) :
                    \E m \in (j + 2)..Len(w.log) : w.log[m][1] = "mount" /\ w.log[m][2] = c
        /\ w.par[anchor] = w.par[el]
        /\ SubSeq(sibs, IndexOf(sibs, el) + 1, IndexOf(sibs, anchor) - 1) =
               FlatHost(w, w.vn[n2].children, 1)

\* C24 as stated: an old fragment's anchors are reused, patchBlockChildren is
\* used if and only if the new patchFlag is positive with STABLE_FRAGMENT and
\* both fragments have dynamicChildren, patchChildren with the end anchor in
\* every other case; a mount inserts the start anchor, then the end anchor, and
\* mounts the children before the end anchor.
FragmentByFlag ==
    (pc \in {"old", "new", "back"} /\ ~w.thrown) =>
        /\ \A i \in FragmentPatches :
              /\ AnchorsReused(w.log[i][3], w.log[i][2])
              /\ IF StableBlocks(w.log[i][3], w.log[i][2]) THEN ByBlock(w.log[i][2])
                 ELSE ByChildren(w.log[i][2])
        /\ \A i \in FragmentMounts : MountedBetweenAnchors(i)

\* C24: an old fragment's anchors are reused; patchBlockChildren is used if and
\* only if the new patchFlag is positive with STABLE_FRAGMENT, both fragments
\* have dynamicChildren and, in a development build, the fragment is not a
\* DEV_ROOT_FRAGMENT and no hot reload is in progress; in every other case
\* patchChildren is used with the end anchor; a mount inserts the start anchor,
\* then the end anchor, and mounts the children before the end anchor.
FragmentPatch ==
    (pc \in {"old", "new", "back"} /\ ~w.thrown) =>
        /\ \A i \in FragmentPatches :
              /\ AnchorsReused(w.log[i][3], w.log[i][2])
              /\ IF StableBlocks(w.log[i][3], w.log[i][2])
                    /\ ~(w.dev /\ HasBit(w.vn[w.log[i][2]].patchFlag, DEV_ROOT_FRAGMENT))
                    /\ ~hmrUpdating(w)
                 THEN ByBlock(w.log[i][2])
                 ELSE ByChildren(w.log[i][2])
        /\ \A i \in FragmentMounts : MountedBetweenAnchors(i)

\* a development root fragment diffed in full around a stable fragment that is
\* patched through its dynamicChildren
FragmentPatchWitness ==
    /\ pc = "new"
    /\ ~hmrUpdating(w)
    /\ inp.ctx = "devroot"
    /\ inp.old.kind = "Fragment"
    /\ inp.new.kind = "Fragment"
    /\ StableBlocks(Before.root, w.root)
    /\ ByChildren(w.root)
    /\ \E i \in FragmentPatches :
          w.log[i][2] # w.root /\ StableBlocks(w.log[i][3], w.log[i][2]) /\ ByBlock(w.log[i][2])


(* ---------------------- the props of one element ----------------------- *)

\* the props object { class, style, id, value }; 0 is a key that is absent
PropsOf(vals) == [key \in {x \in DOMAIN vals : vals[x] # 0} |-> vals[key]]

OldPropVals == [class : {0, 1}, style : {0, 1}, id : {0, 1}, value : {0, 1}]

NewPropVals == [class : {0, 1, 2}, style : {0, 1}, id : {0, 1, 2}, value : {0, 1}]

\* the patch flags an <a> is created with: none (written by hand), the flags
\* of a class, a style, an id and a value binding, of a dynamic key, of a
\* hoisted element
PropFlags == {0, CLASS, STYLE, PROPS, CLASS + STYLE + PROPS, FULL_PROPS, HOISTED}

\* the dynamicProps the compiler lists with PROPS
DynamicPropLists == {<<"id">>, <<"id", "value">>}

\* how the element is reached: by render, as a block by render, or through the
\* dynamicChildren of the block around it
PropModes == {"plain", "isBlock", "inBlock"}

\* <a v-bind="props">9</a>
PropElement(vals, flag, dynamicProps, mode) ==
    Tpl("Element", "a", 0, PropsOf(vals), "text", 9, <<>>, flag,
        IF mode = "isBlock" THEN "block" ELSE "no",
        IF flag > 0 /\ HasBit(flag, PROPS) THEN dynamicProps ELSE <<>>, 0)

PropTree(vals, flag, dynamicProps, mode) ==
    IF mode = "inBlock"
    THEN Tpl("Element", "div", 0, EmptyProps, "array", 0,
             <<PropElement(vals, flag, dynamicProps, mode)>>, 0, "block", <<>>, 0)
    ELSE PropElement(vals, flag, dynamicProps, mode)

\* a block collects the element when its flag is positive; the old element has
\* the flag of the new one or, its keys being dynamic, FULL_PROPS; the patch is
\* made in a production build or during a hot reload of a development build
InitProps ==
    /\ inp \in {i \in [old : OldPropVals, new : NewPropVals, flag : PropFlags,
                       oldFull : BOOLEAN, dynamicProps : DynamicPropLists, mode : PropModes,
                       hmr : BOOLEAN] :
                   /\ i.mode = "inBlock" => i.flag > 0
                   /\ ~(i.flag > 0 /\ HasBit(i.flag, PROPS)) => i.dynamicProps = <<"id">>}
    /\ w = [World0(inp.hmr, TRUE) EXCEPT !.hmr = inp.hmr]
    /\ pc = "start"
    /\ hist = <<>>

\* the element is mounted with the old props
MountProps ==
    /\ pc = "start"
    /\ w' = RenderTpl(w, PropTree(inp.old, IF inp.oldFull THEN FULL_PROPS ELSE inp.flag,
                                  inp.dynamicProps, inp.mode))
    /\ pc' = "old"
    /\ hist' = Append(hist, w)
    /\ UNCHANGED inp

\* and patched to the new props
PatchProps ==
    /\ pc = "old"
    /\ w' = RenderTpl(w, PropTree(inp.new, inp.flag, inp.dynamicProps, inp.mode))
    /\ pc' = "new"
    /\ hist' = Append(hist, w)
    /\ UNCHANGED inp

NextProps == MountProps \/ PatchProps

SpecProps == InitProps /\ [][NextProps]_vars

\* the <a> of a tree
PropNode(x) == IF x.vn[x.root].tag = "a" THEN x.root ELSE x.vn[x.root].children[1]

\* the host node of the <a>
PropEl == w.vn[PropNode(w)].el

\* new patchFlag | (old patchFlag & FULL_PROPS)
EffectiveFlag ==
    IF HasBit(Before.vn[PropNode(Before)].patchFlag, FULL_PROPS)
    THEN BitOr(w.vn[PropNode(w)].patchFlag, FULL_PROPS)
    ELSE w.vn[PropNode(w)].patchFlag

\* the keys hostPatchProp was called with on the <a>, in call order
PatchedKeys ==
    LET hits == SelectSeq(w.log, LAMBDA e : e[1] = "patchProp" /\ e[2] = PropEl)
    IN  [i \in 1..Len(hits) |-> hits[i][3]]

Changed(key) == Get(PropsOf(inp.new), key) # Get(PropsOf(inp.old), key)

\* what the flagged categories come to
FlaggedKeys ==
    (IF HasBit(EffectiveFlag, CLASS) /\ Changed("class") THEN <<"class">> ELSE <<>>)
    \o (IF HasBit(EffectiveFlag, STYLE) THEN <<"style">> ELSE <<>>)
    \o (IF HasBit(EffectiveFlag, PROPS)
        THEN SelectSeq(inp.dynamicProps, LAMBDA key : Changed(key) \/ key = "value")
        ELSE <<>>)

\* the full diff ran on the <a>, and the host node has the new props
FullPropDiff ==
    /\ CallsOn({"patchProps"}, PropEl) = 1
    /\ w.attrs[PropEl] = PropsOf(inp.new)

\* (a) and (b) of C22: the flagged paths
FlaggedProps ==
    /\ (EffectiveFlag > 0 /\ HasBit(EffectiveFlag, FULL_PROPS)) => FullPropDiff
    /\ (EffectiveFlag > 0 /\ ~HasBit(EffectiveFlag, FULL_PROPS)) =>
           /\ CallsOn({"patchProps"}, PropEl) = 0
           /\ PatchedKeys = FlaggedKeys

\* C22 as stated: full diff with a positive flag containing FULL_PROPS, the
\* flagged categories only with a positive flag without it, and a full prop
\* diff in every other case.
PropsByFlagOrFull ==
    pc = "new" => FlaggedProps /\ (EffectiveFlag <= 0 => FullPropDiff)

\* C22: during a hot reload the full prop diff is done.  Otherwise, with the
\* effective flag (the new patchFlag with the old node's FULL_PROPS bit), a
\* positive flag with FULL_PROPS does the full prop diff; a positive flag
\* without it patches class if CLASS and changed, style if STYLE, the keys of
\* dynamicProps if PROPS and (changed or 'value'), and no other key; without a
\* positive flag the full prop diff is done when the patch is not optimized and
\* the new node has no dynamicChildren, and no prop is patched otherwise.
PropsByFlag ==
    pc = "new" =>
        IF hmrUpdating(w) THEN FullPropDiff
        ELSE /\ FlaggedProps
             /\ EffectiveFlag <= 0 =>
                    IF \E j \in 1..Len(w.log) : w.log[j] = <<"patchElement", PropNode(w), FALSE>>
                       /\ ~w.vn[PropNode(w)].hasDyn
                    THEN FullPropDiff
                    ELSE CallsOn({"patchProp", "patchProps"}, PropEl) = 0

\* an element flagged CLASS and PROPS whose class, id and value all changed but
\* whose value is not listed: class and id are patched, value is not
PropsByFlagWitness ==
    /\ pc = "new"
    /\ ~hmrUpdating(w)
    /\ inp.mode = "inBlock"
    /\ EffectiveFlag = CLASS + STYLE + PROPS
    /\ inp.dynamicProps = <<"id">>
    /\ Changed("class") /\ Changed("id") /\ Changed("value")
    /\ PatchedKeys = <<"class", "style", "id">>
    /\ w.attrs[PropEl] # PropsOf(inp.new)


(* --------------------- a block with two dynamic children --------------- *)

\* the dynamic children: a span with a text binding (under a v-if when keyed),
\* a stable fragment and a component
BlockItems == {it \in Items : it.kind \in {"SpanText", "Fragment", "Leaf"}}

\* <div><p>{first}</p><h2/>{second}</div>, or <div>{first}<h2/>{second}</div>:
\* the <p> has no binding of its own and is not tracked, its child is
BlockTree(first, second, nested) ==
    Tpl("Element", "div", 0, EmptyProps, "array", 0,
        <<IF nested
          THEN Tpl("Element", "p", 0, EmptyProps, "array", 0, <<ItemTpl(first, "block")>>,
                   0, "no", <<>>, 0)
          ELSE ItemTpl(first, "block"),
          Hoisted("h2", 8),
          ItemTpl(second, "block")>>,
        0, "block", <<>>, 0)

InitBlock ==
    /\ inp \in [old : BlockItems \X BlockItems, new : BlockItems \X BlockItems,
                nested : BOOLEAN]
    /\ w = World0(FALSE, TRUE)
    /\ pc = "start"
    /\ hist = <<>>

\* the block is mounted
MountBlock ==
    /\ pc = "start"
    /\ w' = RenderTpl(w, BlockTree(inp.old[1], inp.old[2], inp.nested))
    /\ pc' = "old"
    /\ hist' = Append(hist, w)
    /\ UNCHANGED inp

\* and patched
PatchBlock ==
    /\ pc = "old"
    /\ w' = RenderTpl(w, BlockTree(inp.new[1], inp.new[2], inp.nested))
    /\ pc' = "new"
    /\ hist' = Append(hist, w)
    /\ UNCHANGED inp

NextBlock == MountBlock \/ PatchBlock

SpecBlock == InitBlock /\ [][NextBlock]_vars

\* the entries <<"blockPair", newVNode, oldVNode>>
PairEntries == {i \in 1..Len(w.log) : w.log[i][1] = "blockPair"}

\* the vnodes patchBlockChildren was called for
BlockOwners ==
    {w.log[i][2] : i \in {j \in 1..Len(w.log) : w.log[j][1] = "patchBlockChildren"}}

\* the block a new dynamic child belongs to
OwnerOf(new) == CHOOSE o \in BlockOwners : new \in SeqSet(w.vn[o].dyn)

\* the fallbackContainer of a block: the el of a block element, the container
\* of a fragment
FallbackOf(o) == IF w.vn[o].type = "Element" THEN w.vn[o].el ELSE w.par[w.vn[o].el]

\* the pair of entry i needs its actual host parent
NeedsParent(i) ==
    /\ Before.vn[w.log[i][3]].el # 0
    /\ \/ Before.vn[w.log[i][3]].type \in {"Fragment", "Component"}
       \/ ~isSameVNodeType(Before.vn[w.log[i][3]], w.vn[w.log[i][2]])

\* C25: patchBlockChildren patches a pair in the old child's actual host parent
\* when the old child has a host node and is a Fragment or a Component or the
\* pair is not same-type; in every other case in the enclosing block's
\* fallbackContainer, without a host parent lookup.
BlockContainerChoice ==
    pc = "new" =>
        \A i \in PairEntries :
            IF NeedsParent(i)
            THEN /\ w.log[i + 1] = <<"parentNode", Before.vn[w.log[i][3]].el, 0>>
                 /\ w.log[i + 2] =
                        <<"blockContainer", w.log[i][2], Before.par[Before.vn[w.log[i][3]].el]>>
            ELSE w.log[i + 1] = <<"blockContainer", w.log[i][2], FallbackOf(OwnerOf(w.log[i][2]))>>

\* a fragment inside the <p> is patched in the <p>, which is not the block
\* element, and the span next to it in the block element with no lookup
BlockContainerChoiceWitness ==
    /\ pc = "new"
    /\ inp.nested
    /\ inp.old[1].kind = "Fragment" /\ inp.new[1].kind = "Fragment"
    /\ inp.old[2].kind = "SpanText" /\ inp.new[2] = inp.old[2]
    /\ \E i \in PairEntries :
          /\ NeedsParent(i)
          /\ w.log[i + 2][3] # w.vn[w.root].el
          /\ w.kind[w.log[i + 2][3]] = "p"
    /\ \E i \in PairEntries :
          /\ ~NeedsParent(i)
          /\ w.log[i + 1] = <<"blockContainer", w.log[i][2], w.vn[w.root].el>>
    /\ Count(w.log, "parentNode") = 1

\* the old vnode the block o was patched from
OldOf(o) == w.log[CHOOSE i \in PatchEntries : w.log[i][2] = o][3]

\* the pairs logged for the dynamic children of the block o, in log order
PairsOf(o) ==
    LET hits == SelectSeq(w.log,
                          LAMBDA e : e[1] = "blockPair" /\ e[2] \in SeqSet(w.vn[o].dyn))
    IN  [i \in 1..Len(hits) |-> <<hits[i][2], hits[i][3]>>]

\* the host children of h that were its children before, in their new order
Kept(h) == SelectSeq(w.kids[h], LAMBDA x : x <= Len(Before.kids) /\ Before.par[x] = h)

\* C26: patchBlockChildren patches the pairs (old.dynamicChildren[i],
\* new.dynamicChildren[i]), i from 0 to the new length - 1, in index order;
\* it moves nothing, the only host nodes inserted are created in the same
\* patch, the only ones removed are detached, and the host nodes that stay
\* under a parent keep their order.
BlockPairsByIndex ==
    pc = "new" =>
        /\ \A o \in BlockOwners :
              PairsOf(o) = [i \in 1..Len(w.vn[o].dyn) |->
                               <<w.vn[o].dyn[i], Before.vn[OldOf(o)].dyn[i]>>]
        /\ Count(w.log, "move") = 0
        /\ \A j \in 1..Len(w.log) :
              /\ w.log[j][1] = "insert" => w.log[j][2] > Len(Before.kids)
              /\ w.log[j][1] = "remove" => w.par[w.log[j][2]] = 0
        /\ \A h \in 1..Len(Before.kids) :
              Kept(h) = SelectSeq(Before.kids[h], LAMBDA x : w.par[x] = h)
        /\ \A i \in PairEntries :
              ~NeedsParent(i) => w.vn[w.log[i][2]].el = Before.vn[w.log[i][3]].el

\* the two v-if spans of a block trade their keys: each is paired with the
\* old child at its index, which is not same-type, and replaced in place
BlockPairsByIndexWitness ==
    /\ pc = "new"
    /\ ~inp.nested
    /\ inp.old[1].kind = "SpanText" /\ inp.old[1].key = 0
    /\ inp.old[2].kind = "SpanText" /\ inp.old[2].key = 1
    /\ inp.new[1] = inp.old[2]
    /\ inp.new[2] = inp.old[1]
    /\ Len(PairsOf(w.root)) = 2
    /\ Count(w.log, "move") = 0
    /\ Count(w.log, "create") = 2


(* ------------------ lists of keyed and key-less children --------------- *)

\* most keys in a list that mixes keyed and key-less children
NumMixKeys == 2

\* longest such list
MaxMixLen == 3

\* a child is a <li> with a key (1, 2, ...), a <li> without (0) or a <p>
\* without (-1); no key is repeated
MixLists ==
    {l \in UNION {[1..n -> (0 - 1)..NumMixKeys] : n \in 0..MaxMixLen} :
        \A i, j \in 1..Len(l) : (i # j /\ l[i] > 0) => l[i] # l[j]}

\* the old list names its keys in the order they appear in
OldMixLists ==
    {l \in MixLists :
        \A i \in 1..Len(l) :
            l[i] > 0 => l[i] = 1 + Cardinality({j \in 1..(i - 1) : l[j] > 0})}

InitMixed ==
    /\ inp \in [a : OldMixLists, b : MixLists, owner : {"Element", "Fragment"}]
    /\ w = World0(TRUE, FALSE)
    /\ pc = "start"
    /\ hist = <<>>

SpecMixed == InitMixed /\ [][NextKeyed]_vars

(* --------------------- the phases of the keyed diff -------------------- *)

\* the children arrays c1 and c2 of the diff that has just run
C1 == Before.vn[Before.root].children

C2 == w.vn[w.root].children

\* c1[i] and c2[j] are same-type
SameAt(i, j) == isSameVNodeType(Before.vn[C1[i]], w.vn[C2[j]])

ShorterLen == IF Len(C1) < Len(C2) THEN Len(C1) ELSE Len(C2)

\* the length of the longest common prefix of index-aligned same-type pairs
PrefixLen ==
    CHOOSE p \in 0..ShorterLen :
        /\ \A i \in 1..p : SameAt(i, i)
        /\ p = ShorterLen \/ ~SameAt(p + 1, p + 1)

\* the length of the longest common suffix of end-aligned same-type pairs of
\* what the prefix leaves
SuffixLen ==
    CHOOSE q \in 0..(ShorterLen - PrefixLen) :
        /\ \A i \in 1..q : SameAt(Len(C1) - i + 1, Len(C2) - i + 1)
        /\ q = ShorterLen - PrefixLen \/ ~SameAt(Len(C1) - q, Len(C2) - q)

\* the pairs <<n2, n1>> logged as `op`, in log order
PairsLogged(op) ==
    LET hits == SelectSeq(w.log, LAMBDA e : e[1] = op)
    IN  [i \in 1..Len(hits) |-> <<hits[i][2], hits[i][3]>>]

\* the vnodes logged as `op`, in log order
Logged(op) ==
    LET hits == SelectSeq(w.log, LAMBDA e : e[1] = op)
    IN  [i \in 1..Len(hits) |-> hits[i][2]]

\* the pair (n1, n2) was patched in place, once, and neither node was mounted,
\* unmounted or moved
InPlaceOnce(n1, n2) ==
    /\ w.vn[n2].el = Before.vn[n1].el
    /\ w.par[w.vn[n2].el] = Before.par[w.vn[n2].el]
    /\ Cardinality({i \in PatchEntries : w.log[i][2] = n2 \/ w.log[i][3] = n1}) = 1
    /\ \E i \in PatchEntries : w.log[i] = <<"patch", n2, n1>>
    /\ \A i \in 1..Len(w.log) :
          w.log[i][1] \in {"mount", "unmount", "move"} => w.log[i][2] \notin {n1, n2}

\* C27: head sync patches in place exactly the longest common prefix of
\* index-aligned same-type pairs, tail sync then exactly the longest common
\* suffix of end-aligned same-type pairs of what remains; the ranges do not
\* overlap, no node is patched twice and no node of the ranges is mounted,
\* unmounted or moved.
SyncRanges ==
    Diffed =>
        /\ PairsLogged("syncStart") = [i \in 1..PrefixLen |-> <<C2[i], C1[i]>>]
        /\ PairsLogged("syncEnd") =
               [i \in 1..SuffixLen |-> <<C2[Len(C2) - i + 1], C1[Len(C1) - i + 1]>>]
        /\ PrefixLen + SuffixLen <= ShorterLen
        /\ \A i \in 1..PrefixLen : InPlaceOnce(C1[i], C2[i])
        /\ \A i \in 1..SuffixLen : InPlaceOnce(C1[Len(C1) - i + 1], C2[Len(C2) - i + 1])
        /\ \A i \in 1..Len(w.log) :
              w.log[i][1] \in {"syncStart", "syncEnd"} =>
                  w.log[i + 1] = <<"patch", w.log[i][2], w.log[i][3]>>

\* key-less children synced from both ends around a middle that is not
SyncRangesWitness ==
    /\ pc = "B"
    /\ inp.a = <<0, 1, 0 - 1>>
    /\ inp.b = <<0, 0 - 1, 0 - 1>>
    /\ PrefixLen = 1
    /\ SuffixLen = 1
    /\ Len(PairsLogged("syncStart")) = 1
    /\ Len(PairsLogged("syncEnd")) = 1
    /\ Count(w.log, "unmount") = 1
    /\ Count(w.log, "mount") = 1

\* what the two syncs leave of c1 and of c2
RestOld == SubSeq(C1, PrefixLen + 1, Len(C1) - SuffixLen)

RestNew == SubSeq(C2, PrefixLen + 1, Len(C2) - SuffixLen)

\* C28: when the syncs exhaust the old list only, the remaining new nodes are
\* mounted in list order, each before the host node of the new child that
\* follows the range, or before the parent anchor at the end of the list, and
\* nothing is unmounted or moved; when they exhaust the new list only, the
\* remaining old nodes are unmounted and their host nodes removed, and
\* nothing is mounted or moved.
RestMountedOrUnmounted ==
    Diffed =>
        /\ (RestOld = <<>> /\ RestNew # <<>>) =>
               /\ Logged("mount") = RestNew
               /\ \A i \in 1..Len(w.log) : w.log[i][1] = "mount" => w.log[i][3] = 0
               /\ Count(w.log, "unmount") = 0
               /\ Count(w.log, "move") = 0
               /\ Count(w.log, "insert") = Len(RestNew)
               /\ HostRegion(w, w.root) = NewEls
               /\ \A i \in 1..Len(RestNew) : w.vn[RestNew[i]].el > Len(Before.kids)
        /\ (RestNew = <<>> /\ RestOld # <<>>) =>
               /\ Logged("unmount") = RestOld
               /\ Count(w.log, "mount") = 0
               /\ Count(w.log, "move") = 0
               /\ Count(w.log, "remove") = Len(RestOld)
               /\ \A i \in 1..Len(RestOld) :
                     /\ w.par[Before.vn[RestOld[i]].el] = 0
                     /\ CallsOn({"remove"}, Before.vn[RestOld[i]].el) = 1
               /\ HostRegion(w, w.root) = NewEls

\* two nodes mounted between a synced head and a synced tail
RestMountedOrUnmountedWitness ==
    /\ pc = "B"
    /\ OldKeys = <<1, 2>>
    /\ NewKeys = <<1, 3, 4, 2>>
    /\ PrefixLen = 1
    /\ SuffixLen = 1
    /\ Logged("mount") = RestNew
    /\ Len(RestNew) = 2
    /\ hostNextSibling(w, w.vn[RestNew[2]].el) = w.vn[C2[4]].el

\* the positions of c1 and of c2 the two syncs leave
MiddleOld == (PrefixLen + 1)..(Len(C1) - SuffixLen)

MiddleNew == (PrefixLen + 1)..(Len(C2) - SuffixLen)

\* both lists have a middle: the diff went through its unknown-sequence phase
UnknownMiddle == Diffed /\ MiddleOld # {} /\ MiddleNew # {}

\* the new nodes patched against one of old[i]
PairedWith(i) ==
    {n2 \in 1..Len(w.vn) :
        \E e \in 1..Len(w.log) :
            w.log[e][1] \in {"patch", "mount"} /\ w.log[e][2] = n2 /\ w.log[e][3] = C1[i]}

\* the new positions of the middle not yet matched when old[i] is looked at,
\* and same-type with it
Available(i) ==
    {j \in MiddleNew :
        /\ SameAt(i, j)
        /\ \A h \in MiddleOld : h < i => C2[j] \notin PairedWith(h)}

Lowest(S) == CHOOSE j \in S : \A h \in S : j <= h

\* the new positions of the middle that carry the key of old[i]
SameKey(i) == {j \in MiddleNew : w.vn[C2[j]].key = Before.vn[C1[i]].key}

UnmountedOnce(i) ==
    /\ PairedWith(i) = {}
    /\ Cardinality({e \in 1..Len(w.log) : w.log[e] = <<"unmount", C1[i], 0>>}) = 1

\* C30: in the unknown middle an old node without a key is paired with the
\* first new node of the range that is still unmatched and same-type, and is
\* unmounted if there is none; an old node with a key is paired only with the
\* new node that carries the key; no new node is paired with two old nodes.
MiddlePairing ==
    UnknownMiddle =>
        /\ \A i \in MiddleOld :
              IF Before.vn[C1[i]].key = 0
              THEN IF Available(i) = {} THEN UnmountedOnce(i)
                   ELSE PairedWith(i) = {C2[Lowest(Available(i))]}
              ELSE IF SameKey(i) = {} THEN UnmountedOnce(i)
                   ELSE PairedWith(i) = {C2[j] : j \in SameKey(i)}
        /\ \A i, h \in MiddleOld : i # h => PairedWith(i) \cap PairedWith(h) = {}
        /\ \A j \in MiddleNew :
              Cardinality({e \in PatchEntries : w.log[e][2] = C2[j]}) <= 1

\* two key-less <li> compete for one new key-less <li>; the keyed one finds
\* its key
MiddlePairingWitness ==
    /\ pc = "B"
    /\ inp.a = <<0, 0, 1>>
    /\ inp.b = <<1, 0, 0 - 1>>
    /\ MiddleOld = 1..3
    /\ PairedWith(1) = {C2[2]}
    /\ UnmountedOnce(2)
    /\ PairedWith(3) = {C2[1]}


(* ------------------------ getSequence by itself ------------------------ *)

\* longest newIndexToOldIndexMap handed to getSequence
MaxSeqLen == 4

\* largest entry of it (an old index plus one)
MaxSeqVal == 4

\* the arrays newIndexToOldIndexMap can be: 0 for a new node without an old
\* counterpart, and no old index twice
SeqArrays ==
    {arr \in UNION {[1..n -> 0..MaxSeqVal] : n \in 0..MaxSeqLen} :
        \A i, j \in 1..Len(arr) : (i # j /\ arr[i] # 0) => arr[i] # arr[j]}

InitSeq ==
    /\ inp \in [arr : SeqArrays]
    /\ w = World0(TRUE, FALSE)
    /\ pc = "start"
    /\ hist = <<>>

\* increasingNewIndexSequence = getSequence(newIndexToOldIndexMap)
ApplySequence ==
    /\ pc = "start"
    /\ hist' = <<getSequence(inp.arr)>>
    /\ pc' = "done"
    /\ UNCHANGED <<w, inp>>

NextSeq == ApplySequence

SpecSeq == InitSeq /\ [][NextSeq]_vars

\* what getSequence returned
Sequence == hist[1]

NonZero(arr) == SelectSeq(arr, LAMBDA e : e # 0)

\* idx is a strictly increasing list of indices into arr at non-zero entries
\* that strictly increase, as long as any such list
LongestIncreasing(idx, arr) ==
    /\ \A i \in 1..Len(idx) : idx[i] \in 0..(Len(arr) - 1) /\ At(arr, idx[i]) # 0
    /\ \A i, j \in 1..Len(idx) :
          i < j => idx[i] < idx[j] /\ At(arr, idx[i]) < At(arr, idx[j])
    /\ Len(idx) = LisLength(NonZero(arr))

\* C29: for every array of non-negative integers whose non-zero entries are
\* distinct, getSequence returns a strictly increasing list of indices, each
\* at a non-zero entry, with strictly increasing entries, as long as a longest
\* increasing subsequence of the non-zero entries.
SequenceIsLongestIncreasing ==
    pc = "done" => LongestIncreasing(Sequence, inp.arr)

\* what getSequence does return: the above when arr[0] is not 0; else index 0
\* followed by such a list
SequenceAfterHead ==
    pc = "done" =>
        IF inp.arr # <<>> /\ At(inp.arr, 0) # 0
        THEN LongestIncreasing(Sequence, inp.arr)
        ELSE /\ Sequence # <<>>
             /\ Sequence[1] = 0
             /\ LongestIncreasing(Tail(Sequence), inp.arr)

\* getSequence([0, 2, 1]) is [0, 2]: the map of the diff of [a, b] to [c, b, a]
SequenceAfterHeadWitness ==
    /\ pc = "done"
    /\ inp.arr = <<0, 2, 1>>
    /\ Sequence = <<0, 2>>


(* ------------------- a node flagged BAIL is patched -------------------- *)

\* the flags the old node may carry
BailOldFlags == {0, CLASS, FULL_PROPS, HOISTED, BAIL, STABLE_FRAGMENT, KEYED_FRAGMENT}

\* where the node stands: alone in the container, tracked by the block around
\* it, or in a fragment without keys
BailCtxs == {"root", "block", "unkeyed"}

\* a <div :class> or a fragment holding a span with a dynamic text, a <p>
\* whose text no flag announces and, maybe, a <b>
BailNode(kind, flag, blk, text, extra) ==
    Tpl(kind, IF kind = "Element" THEN "div" ELSE "", 0,
        IF kind = "Element" THEN [x \in {"class"} |-> text] ELSE EmptyProps, "array", 0,
        <<Tpl("Element", "span", 0, EmptyProps, "text", text, <<>>, TEXT, "no", <<>>, 0),
          Tpl("Element", "p", 0, EmptyProps, "text", text + 2, <<>>, 0, "no", <<>>, 0)>>
        \o (IF extra THEN <<Tpl("Element", "b", 0, EmptyProps, "text", 9, <<>>, 0, "no", <<>>, 0)>>
            ELSE <<>>),
        flag, IF blk THEN "block" ELSE "no", <<>>, 0)

BailTree(kind, flag, blk, text, extra, ctx) ==
    CASE ctx = "root" -> BailNode(kind, flag, blk, text, extra)
      [] ctx = "block" ->
           Tpl("Element", "section", 0, EmptyProps, "array", 0,
               <<Hoisted("h1", 7), BailNode(kind, flag, blk, text, extra)>>,
               0, "block", <<>>, 0)
      [] ctx = "unkeyed" ->
           Tpl("Fragment", "", 0, EmptyProps, "array", 0,
               <<Tpl("Text", "", 0, EmptyProps, "text", 7, <<>>, 0, "no", <<>>, 0),
                 BailNode(kind, flag, blk, text, extra)>>,
               UNKEYED_FRAGMENT, "untracked", <<>>, 0)

\* a block pairs its dynamic children by index: both renders of a block track
\* the node, which a block does for a block; an element carries element flags
\* and a fragment fragment flags
InitBail ==
    /\ inp \in {i \in [kind : {"Element", "Fragment"}, oldFlag : BailOldFlags,
                       oldBlk : BOOLEAN, newBlk : BOOLEAN, ctx : BailCtxs,
                       old : Texts, new : Texts, extra : BOOLEAN, dev : BOOLEAN] :
                   /\ i.ctx = "block" => i.oldBlk /\ i.newBlk
                   /\ i.kind = "Element" => i.oldFlag \notin {STABLE_FRAGMENT, KEYED_FRAGMENT}
                   /\ i.kind = "Fragment" => i.oldFlag \notin {CLASS, FULL_PROPS, HOISTED}}
    /\ w = World0(inp.dev, TRUE)
    /\ pc = "start"
    /\ hist = <<>>

\* the node is mounted with the old flag
MountBail ==
    /\ pc = "start"
    /\ w' = RenderTpl(w, BailTree(inp.kind, inp.oldFlag, inp.oldBlk, inp.old, FALSE, inp.ctx))
    /\ pc' = "old"
    /\ hist' = Append(hist, w)
    /\ UNCHANGED inp

\* and patched to a node flagged BAIL
PatchBail ==
    /\ pc = "old"
    /\ w' = RenderTpl(w, BailTree(inp.kind, BAIL, inp.newBlk, inp.new, inp.extra, inp.ctx))
    /\ pc' = "new"
    /\ hist' = Append(hist, w)
    /\ UNCHANGED inp

NextBail == MountBail \/ PatchBail

SpecBail == InitBail /\ [][NextBail]_vars

\* the same-type pairs whose new node is flagged BAIL
BailEntries == {i \in PatchEntries : w.vn[w.log[i][2]].patchFlag = BAIL}

\* each child of n2 has a host node of its own with the child's content, and
\* these are the host children of n2 in order
ChildrenDiffed(n2) ==
    LET c2 == w.vn[n2].children
    IN  /\ \A i \in 1..Len(c2) :
              /\ w.vn[c2[i]].el # 0
              /\ w.text[w.vn[c2[i]].el] = w.vn[c2[i]].text
              /\ \A j \in 1..Len(c2) : w.vn[c2[j]].el = w.vn[c2[i]].el => j = i
        /\ [i \in 1..Len(c2) |-> w.vn[c2[i]].el] =
               IF w.vn[n2].type = "Element" THEN w.kids[w.vn[n2].el]
               ELSE LET siblings == w.kids[w.par[w.vn[n2].el]]
                    IN  SubSeq(siblings, IndexOf(siblings, w.vn[n2].el) + 1,
                               IndexOf(siblings, w.vn[n2].anchor) - 1)

\* C31: a pair whose new node is flagged BAIL is patched without a fast path,
\* whatever the old node's flag: the new node's dynamicChildren are dropped
\* and optimized is false, so that an element gets the full children diff and
\* the full prop diff, and a fragment is patched through patchChildren.
BailFullDiff ==
    pc = "new" =>
        \A i \in BailEntries :
            LET n2 == w.log[i][2]
            IN  /\ ~w.vn[n2].hasDyn
                /\ w.vn[n2].dyn = <<>>
                /\ ChildrenCalls("patchBlockChildren", n2) = 0
                /\ ChildrenCalls("patchChildren", n2) = 1
                /\ w.vn[n2].type = "Element" =>
                       /\ \E j \in 1..Len(w.log) : w.log[j] = <<"patchElement", n2, FALSE>>
                       /\ CallsOn({"patchProps"}, w.vn[n2].el) = 1
                       /\ w.attrs[w.vn[n2].el] = w.vn[n2].props
                /\ ChildrenDiffed(n2)

\* a block flagged BAIL, tracked by the block around it, replaces a block
\* flagged for the fast path; the children no flag announces are diffed
BailFullDiffWitness ==
    /\ pc = "new"
    /\ inp.ctx = "block"
    /\ inp.kind = "Fragment"
    /\ inp.oldFlag = STABLE_FRAGMENT
    /\ inp.extra
    /\ inp.old # inp.new
    /\ Before.vn[Before.vn[Before.root].children[2]].hasDyn
    /\ \E i \in BailEntries :
          /\ w.vn[w.log[i][2]].type = "Fragment"
          /\ Len(w.vn[w.log[i][2]].children) = 3
          /\ ChildrenCalls("patchChildren", w.log[i][2]) = 1
    /\ Count(w.log, "create") = 1


(* ------------- components in a list: moved, then updated --------------- *)

\* the components of the list are keyed 1..NumUpdKeys
NumUpdKeys == 2

UpdKeys == 1..NumUpdKeys

\* most state changes of the components of the list
MaxUpdChanges == 1

\* the lists the mounted one is diffed to: its keys in another order, or fewer
UpdLists ==
    {l \in UNION {[1..n -> UpdKeys] : n \in 1..NumUpdKeys} :
        /\ \A i, j \in 1..Len(l) : i # j => l[i] # l[j]
        /\ l # [i \in UpdKeys |-> i]}

\* h(type, { key, msg })
UpdChild(key, type, msg) ==
    Tpl("Component", type, key, [x \in {"msg"} |-> msg], "none", 0, <<>>, 0, "no", <<>>, 0)

\* the <ul> or the keyed fragment that holds the components
UpdOwner(owner, keys, types, msg) ==
    Tpl(IF owner = "Element" THEN "Element" ELSE "Fragment",
        IF owner = "Element" THEN "ul" ELSE "", 0, EmptyProps, "array", 0,
        AsSeq([i \in 1..Len(keys) |-> UpdChild(keys[i], types[keys[i]], msg)]),
        IF owner = "Element" THEN 0 ELSE KEYED_FRAGMENT,
        IF owner = "Element" THEN "no" ELSE "untracked", <<>>, 0)

InitUpd ==
    /\ inp \in [types : [UpdKeys -> {"Leaf", "Swap"}], b : UpdLists,
                owner : {"Element", "Fragment"}, msg : {0, 1}]
    /\ w = World0(TRUE, FALSE)
    /\ pc = "start"
    /\ hist = <<>>

\* the list is mounted
MountList ==
    /\ pc = "start"
    /\ w' = RenderInWindow(w, UpdOwner(inp.owner, [i \in UpdKeys |-> i], inp.types, 0))
    /\ pc' = "MountList"
    /\ hist' = <<w>>
    /\ UNCHANGED inp

\* the list is diffed to the list b, the props of the components the same or
\* changed
DiffList ==
    /\ pc # "start"
    /\ w.root # 0
    /\ Len(w.vn[w.root].children) = NumUpdKeys
    /\ KeysOf(w, w.root) = [i \in UpdKeys |-> i]
    /\ w' = RenderInWindow(w, UpdOwner(inp.owner, inp.b, inp.types, inp.msg))
    /\ pc' = "DiffList"
    /\ hist' = <<w>>
    /\ UNCHANGED inp

\* state of an instance changes
TriggerUpd ==
    /\ pc # "start"
    /\ Changes(w) < MaxUpdChanges
    /\ \E uid \in 1..Len(w.inst) : w' = trigger(w, uid)
    /\ pc' = "TriggerUpd"
    /\ hist' = <<w>>
    /\ UNCHANGED inp

\* the scheduler flushes the queued jobs
FlushUpd ==
    /\ pc # "start"
    /\ w.queue # <<>>
    /\ w' = Log(doFlushJobs(w), "flushed", 0, 0)
    /\ pc' = "FlushUpd"
    /\ hist' = <<w>>
    /\ UNCHANGED inp

NextUpd == MountList \/ DiffList \/ TriggerUpd \/ FlushUpd

SpecUpd == InitUpd /\ [][NextUpd]_vars

\* the instances the last action updated
UpdatedUids ==
    {ActionLog[i][2] : i \in {j \in 1..Len(ActionLog) : ActionLog[j][1] = "updateContainer"}}

\* what the last action logged as `op` for the instance
LoggedFor(op, uid) ==
    LET hits == SelectSeq(ActionLog, LAMBDA e : e[1] = op /\ e[2] = uid)
    IN  [i \in 1..Len(hits) |-> hits[i][3]]

\* the last host node of a subtree
LastOf(x, vnode) == IF x.vn[vnode].anchor # 0 THEN x.vn[vnode].anchor ELSE x.vn[vnode].el

\* the last action made one update, so that the host tree the update met is
\* the one the action started from
OneUpdate ==
    /\ pc \in {"DiffList", "FlushUpd"}
    /\ Cardinality({j \in 1..Len(ActionLog) : ActionLog[j][1] = "updateContainer"}) = 1

\* C32: an update patches the previous subtree against the new one in the
\* host container that holds the previous subtree's host node, with the host
\* node that follows the previous subtree as anchor, whatever container and
\* anchor the component was mounted with; afterwards instance.subTree is the
\* new subtree and the component node's el is the new subtree's el.
UpdateWhereItStands ==
    /\ OneUpdate =>
           \A uid \in UpdatedUids :
               LET prevTree == Before.inst[uid].subTree
                   nextTree == w.inst[uid].subTree
               IN  /\ LoggedFor("updateContainer", uid) = <<Before.par[Before.vn[prevTree].el]>>
                   /\ LoggedFor("updateAnchor", uid) =
                          <<hostNextSibling(Before, LastOf(Before, prevTree))>>
                   /\ \E i \in 1..Len(ActionLog) :
                          ActionLog[i] \in {<<"patch", nextTree, prevTree>>,
                                            <<"mount", nextTree, prevTree>>}
                   /\ nextTree # prevTree
                   /\ pc = "FlushUpd" =>
                          /\ w.par[w.vn[nextTree].el] = Before.par[Before.vn[prevTree].el]
                          /\ IndexOf(w.kids[w.par[w.vn[nextTree].el]], w.vn[nextTree].el) =
                                 IndexOf(Before.kids[Before.par[Before.vn[prevTree].el]],
                                         Before.vn[prevTree].el)
    /\ pc # "start" =>
           \A uid \in 1..Len(w.inst) :
               (w.inst[uid].isMounted /\ w.inst[uid].updateActive) =>
                   /\ w.inst[uid].subTree # 0
                   /\ w.vn[w.inst[uid].vnode].el = w.vn[w.inst[uid].subTree].el
                   /\ w.par[w.vn[w.inst[uid].subTree].el] # 0

\* the component now first in the list, mounted last at the end of the <ul>,
\* swaps its root: the new root stands where the old one stood
UpdateWhereItStandsWitness ==
    /\ pc = "FlushUpd"
    /\ OneUpdate
    /\ inp.owner = "Element"
    /\ inp.b = <<2, 1>>
    /\ KeysOf(w, w.root) = <<2, 1>>
    /\ \E uid \in UpdatedUids :
          /\ w.inst[uid].type = "Swap"
          /\ w.vn[w.inst[uid].vnode].key = 2
          /\ LoggedFor("updateAnchor", uid) # <<0>>
          /\ w.vn[w.inst[uid].subTree].el # Before.vn[Before.inst[uid].subTree].el
          /\ w.kids[w.vn[w.root].el][1] = w.vn[w.inst[uid].subTree].el


(* ------------------- hooks that change their own state ----------------- *)

\* the hooks of a component: beforeMount, beforeUpdate, onVnodeBeforeUpdate
\* of its root element, mounted and updated
HookNames == {"bm", "bu", "vbu", "m", "u"}

\* the hooks that run with recursion disabled
GuardedHooks == {"bm", "bu", "vbu"}

\* h(Hooky, { msg })
HookyTpl(msg) ==
    Tpl("Component", "Hooky", 0, [x \in {"msg"} |-> msg], "none", 0, <<>>, 0, "no", <<>>, 0)

\* the hooks named by inp.changes change state the render depends on
InitHook ==
    /\ inp \in [changes : SUBSET HookNames]
    /\ w = [World0(TRUE, FALSE) EXCEPT !.hookChanges = inp.changes]
    /\ pc = "start"
    /\ hist = <<>>

MountHooky ==
    /\ pc = "start"
    /\ w' = RenderInWindow(w, HookyTpl(0))
    /\ pc' = "MountHooky"
    /\ hist' = <<w>>
    /\ UNCHANGED inp

\* the application renders the component with a new msg
RenderHooky ==
    /\ pc # "start"
    /\ w.vn[w.root].props["msg"] = 0
    /\ w' = RenderInWindow(w, HookyTpl(1))
    /\ pc' = "RenderHooky"
    /\ hist' = <<w>>
    /\ UNCHANGED inp

\* state of the component changes outside its hooks
TriggerHooky ==
    /\ pc # "start"
    /\ w.inst[1].state < MaxHookChanges
    /\ w' = trigger(w, 1)
    /\ pc' = "TriggerHooky"
    /\ hist' = <<w>>
    /\ UNCHANGED inp

FlushHooky ==
    /\ pc # "start"
    /\ w.queue # <<>>
    /\ w' = Log(doFlushJobs(w), "flushed", 0, 0)
    /\ pc' = "FlushHooky"
    /\ hist' = <<w>>
    /\ UNCHANGED inp

NextHook == MountHooky \/ RenderHooky \/ TriggerHooky \/ FlushHooky

SpecHook == InitHook /\ [][NextHook]_vars

\* the log entries that note allowRecurse: each follows the entry of the hook
\* or of the render callback it was noted in
Notes == {i \in 1..Len(w.log) : w.log[i][1] = "allowRecurse"}

\* the state changes a hook made
HookChanges == {i \in 1..Len(w.log) : w.log[i][1] = "change"}

\* the hook the state change i was made in
HookOf(i) == w.log[i - 2][2]

\* C33: allowRecurse of an instance is false while its beforeMount and
\* beforeUpdate hooks and the beforeUpdate vnode hook of an element it owns
\* run, true when its render callback is invoked, in its mounted and updated
\* hooks and whenever no hook runs; a state change made in one of the former
\* hooks does not enqueue the update job, a later one does; the render that
\* follows a beforeMount or beforeUpdate hook shows the change the hook made.
RecurseToggle ==
    pc # "start" =>
        /\ \A c \in 1..Len(w.inst) : w.inst[c].allowRecurse
        /\ \A i \in Notes :
              /\ i > 1
              /\ w.log[i - 1][1] \in {"hook", "render"}
              /\ w.log[i][3] =
                     ~(w.log[i - 1][1] = "hook" /\ w.log[i - 1][2] \in GuardedHooks)
        /\ \A i \in HookChanges :
              /\ w.log[i - 2][1] = "hook"
              /\ HookOf(i) \in GuardedHooks =>
                     (i < Len(w.log) => w.log[i + 1][1] # "queueJob")
              /\ HookOf(i) \notin GuardedHooks =>
                     (\E j \in 1..Len(w.log) : w.log[j] = <<"queueJob", w.log[i][2], 0>>)
        /\ (w.queue = <<>> /\ pc \in {"RenderHooky", "FlushHooky"} /\ "vbu" \notin inp.changes) =>
               w.text[w.vn[w.inst[1].subTree].el] =
                   10 * w.inst[1].props["msg"] + w.inst[1].state

\* the beforeUpdate hook changed the state without a job being queued, the
\* render that followed showed the change, and the change made by the updated
\* hook queued the job
RecurseToggleWitness ==
    /\ pc = "RenderHooky"
    /\ inp.changes = {"bu", "u"}
    /\ \E i \in HookChanges : HookOf(i) = "bu" /\ w.log[i + 1][1] = "render"
    /\ \E i \in HookChanges : HookOf(i) = "u" /\ w.log[i + 1] = <<"queueJob", 1, 0>>
    /\ w.inst[1].state = 2
    /\ w.queue = <<1>>
    /\ w.text[w.vn[w.inst[1].subTree].el] = 11


(* --------------- the life of an instance, event by event --------------- *)

\* most state changes made from outside in the life of a tree
MaxOrderChanges == 2

\* h(Grow, { a, b }): the root component and the two components it holds while
\* its state is odd, each a Leaf (0) or a Poker (1)
GrowTpl(a, b) ==
    Tpl("Component", "Grow", 0, [x \in {"a", "b"} |-> IF x = "a" THEN a ELSE b], "none", 0,
        <<>>, 0, "no", <<>>, 0)

InitOrder ==
    /\ inp \in [a : {0, 1}, b : {0, 1}]
    /\ w = World0(TRUE, FALSE)
    /\ pc = "start"
    /\ hist = <<>>

\* render(h(Grow), container); the log is kept from here on
MountGrow ==
    /\ pc = "start"
    /\ w' = RenderTpl(w, GrowTpl(inp.a, inp.b))
    /\ pc' = "MountGrow"
    /\ hist' = <<w>>
    /\ UNCHANGED inp

\* state of an instance changes
TriggerOrder ==
    /\ pc # "start"
    /\ Cardinality({i \in 1..Len(w.log) : w.log[i][1] = "trigger"}) < MaxOrderChanges
    /\ \E uid \in 1..Len(w.inst) : w' = trigger(Log(w, "trigger", uid, 0), uid)
    /\ pc' = "TriggerOrder"
    /\ hist' = <<w>>
    /\ UNCHANGED inp

\* the scheduler flushes the queued jobs
FlushOrder ==
    /\ pc # "start"
    /\ w.queue # <<>>
    /\ w' = doFlushJobs(w)
    /\ pc' = "FlushOrder"
    /\ hist' = <<w>>
    /\ UNCHANGED inp

\* render(null, container)
UnmountGrow ==
    /\ pc # "start"
    /\ w.root # 0
    /\ w' = doRender(w, 0)
    /\ pc' = "UnmountGrow"
    /\ hist' = <<w>>
    /\ UNCHANGED inp

NextOrder == MountGrow \/ TriggerOrder \/ FlushOrder \/ UnmountGrow

SpecOrder == InitOrder /\ [][NextOrder]_vars

\* the log entry i is an event in the life of the instance c: a hook, a run of
\* the render callback, the mount of the first subtree (the entry after the
\* first render) or the patch of an update
IsEvent(i, c) ==
    \/ w.log[i][1] = "hook" /\ w.log[i][3] = c
    \/ w.log[i] = <<"render", c, 0>>
    \/ w.log[i][1] = "updateContainer" /\ w.log[i][2] = c
    \/ i > 1 /\ w.log[i][1] = "mount" /\ w.log[i - 1] = <<"render", c, 0>>

EventName(i) ==
    CASE w.log[i][1] = "hook" -> w.log[i][2]
      [] w.log[i][1] = "render" -> "render"
      [] w.log[i][1] = "updateContainer" -> "patch"
      [] w.log[i][1] = "mount" -> "mount"

\* the events of the instance c in the order they happened
Events(c) ==
    LET idx == SelectSeq([i \in 1..Len(w.log) |-> i], LAMBDA i : IsEvent(i, c))
    IN  [k \in 1..Len(idx) |-> EventName(idx[k])]

PostHooks == {"m", "u", "um"}

\* e is `first`, then any number of `again`, then maybe `last`
Cycles(e, first, again, last) ==
    LET body == IF Len(e) >= Len(last) /\ SubSeq(e, Len(e) - Len(last) + 1, Len(e)) = last
                THEN SubSeq(e, 1, Len(e) - Len(last))
                ELSE e
        n == Len(again)
    IN  /\ Len(body) >= Len(first)
        /\ SubSeq(body, 1, Len(first)) = first
        /\ (Len(body) - Len(first)) % n = 0
        /\ \A k \in 0..((Len(body) - Len(first)) \div n - 1) :
              SubSeq(body, Len(first) + k * n + 1, Len(first) + k * n + n) = again

\* where `name` stands in e
Places(e, name) == SelectSeq([i \in 1..Len(e) |-> i], LAMBDA i : e[i] = name)

\* C34 as stated: the events of an instance are beforeMount, render, mount,
\* mounted, then updates, each beforeUpdate, render, patch, updated, then
\* beforeUnmount and unmounted.
LifeInOrder ==
    pc # "start" =>
        \A c \in 1..Len(w.inst) :
            Cycles(Events(c), <<"bm", "render", "mount", "m">>,
                   <<"bu", "render", "patch", "u">>, <<"bum", "um">>)

\* C34: the events of an instance other than its post-render hooks are
\* beforeMount, render, mount, then updates, each beforeUpdate, render, patch,
\* then beforeUnmount; the instance is mounted from its mount on; its
\* post-render hooks are mounted, one updated for each update, then unmounted,
\* in this order, each after the event that queued it, unmounted being the
\* instance's last event.
LifeOrder ==
    pc # "start" =>
        \A c \in 1..Len(w.inst) :
            LET e == Events(c)
                core == SelectSeq(e, LAMBDA x : x \notin PostHooks)
                post == SelectSeq(e, LAMBDA x : x \in PostHooks)
            IN  /\ Cycles(core, <<"bm", "render", "mount">>, <<"bu", "render", "patch">>,
                          <<"bum">>)
                /\ Cycles(post, <<"m">>, <<"u">>, <<"um">>)
                /\ w.inst[c].isMounted
                /\ Len(Places(e, "u")) = Len(Places(e, "patch"))
                /\ Len(Places(e, "um")) = Len(Places(e, "bum"))
                /\ Places(e, "m")[1] > Places(e, "mount")[1]
                /\ \A k \in 1..Len(Places(e, "u")) : Places(e, "u")[k] > Places(e, "patch")[k]
                /\ Places(e, "um") # <<>> =>
                       /\ Places(e, "um")[1] = Len(e)
                       /\ w.inst[c].isUnmounted /\ ~w.inst[c].updateActive

\* a component mounted in a flush and updated in the same flush: its mounted
\* hook runs after the update
LifeOrderWitness ==
    /\ pc = "FlushOrder"
    /\ \E c \in 1..Len(w.inst) :
          Events(c) = <<"bm", "render", "mount", "bu", "render", "patch", "m", "u">>
    /\ \E c \in 1..Len(w.inst) :
          SubSeq(Events(c), 1, 4) = <<"bm", "render", "mount", "m">> /\ Len(Events(c)) > 4


(* -------------------------- move on its own ---------------------------- *)

\* the children of the <ul>
NumMoveItems == 2

\* most calls of move in a run
MaxMoves == 1

\* what a child of the <ul> is: an element, a text, a fragment of a text and
\* a span, a fragment holding a component and a fragment, a component whose
\* root is an element, one whose root is a fragment
MoveKinds == {"li", "text", "frag", "deep", "comp", "pair"}

MoveText(n) == Tpl("Text", "", 0, EmptyProps, "text", n, <<>>, 0, "no", <<>>, 0)

MoveFragment(key, kids) ==
    Tpl("Fragment", "", key, EmptyProps, "array", 0, kids, 0, "no", <<>>, 0)

MoveComponent(key, type) ==
    Tpl("Component", type, key, [x \in {"msg"} |-> key], "none", 0, <<>>, 0, "no", <<>>, 0)

MoveItem(key, kind) ==
    CASE kind = "li" -> KeyedChild(key, key)
      [] kind = "text" -> MoveText(key)
      [] kind = "frag" -> MoveFragment(key, <<MoveText(key), KeyedChild(0, key)>>)
      [] kind = "deep" ->
             MoveFragment(key, <<MoveComponent(0, "Pair"), MoveFragment(0, <<KeyedChild(0, key)>>)>>)
      [] kind = "comp" -> MoveComponent(key, "Leaf")
      [] kind = "pair" -> MoveComponent(key, "Pair")

MoveList(kinds) ==
    Tpl("Element", "ul", 0, EmptyProps, "array", 0,
        AsSeq([i \in 1..NumMoveItems |-> MoveItem(i, kinds[i])]), 0, "no", <<>>, 0)

InitMove ==
    /\ inp \in [kinds : [1..NumMoveItems -> MoveKinds]]
    /\ w = World0(TRUE, FALSE)
    /\ pc = "start"
    /\ hist = <<>>

\* the list is mounted
MountMove ==
    /\ pc = "start"
    /\ w' = RenderTpl(w, MoveList(inp.kinds))
    /\ pc' = "MountMove"
    /\ hist' = <<w>>
    /\ UNCHANGED inp

RECURSIVE OwnHosts(_, _)
RECURSIVE OwnHostsOf(_, _, _)

\* the host nodes of the children from the i-th on, in tree order
OwnHostsOf(x, children, i) ==
    IF i > Len(children) THEN <<>>
    ELSE OwnHosts(x, children[i]) \o OwnHostsOf(x, children, i + 1)

\* the host nodes of a vnode by its structure: a component's are its
\* subtree's, a fragment's its start anchor, its children's, its end anchor
OwnHosts(x, v) ==
    IF x.vn[v].type = "Component" THEN OwnHosts(x, x.inst[x.vn[v].component].subTree)
    ELSE IF x.vn[v].type = "Fragment"
    THEN <<x.vn[v].el>> \o OwnHostsOf(x, x.vn[v].children, 1) \o <<x.vn[v].anchor>>
    ELSE <<x.vn[v].el>>

\* move(vnode, container, anchor) for a child of the <ul> and an anchor that
\* is a host child of the <ul> outside the vnode, or null
CallMove ==
    /\ pc # "start"
    /\ Cardinality({i \in 1..Len(w.log) : w.log[i][1] = "moveCall"}) < MaxMoves
    /\ \E i \in 1..NumMoveItems :
          LET vnode == w.vn[w.root].children[i]
              container == w.vn[w.root].el
          IN  \E anchor \in {0} \cup {el \in 1..Len(w.kids) :
                                         /\ w.par[el] = container
                                         /\ ~Has(OwnHosts(w, vnode), el)} :
                  w' = doMove(Log(w, "moveCall", vnode, anchor), vnode, container, anchor)
    /\ pc' = "CallMove"
    /\ hist' = <<w>>
    /\ UNCHANGED inp

NextMove == MountMove \/ CallMove

SpecMove == InitMove /\ [][NextMove]_vars

\* what the last call of move logged, the call first
MoveLog == SubSeq(w.log, Len(Before.log) + 1, Len(w.log))

Moved == MoveLog[1][2]

MoveAnchor == MoveLog[1][3]

\* the host nodes the last call of move inserted, in order
Inserted ==
    LET ins == SelectSeq(MoveLog, LAMBDA e : e[1] = "insert")
    IN  [k \in 1..Len(ins) |-> ins[k][2]]

\* the host children of the <ul> before the call with the vnode's own nodes taken
\* out
Others ==
    SelectSeq(Before.kids[Before.vn[Before.root].el],
              LAMBDA el : ~Has(OwnHosts(Before, Moved), el))

\* C35: move creates and removes no host node; it inserts the vnode's host
\* nodes one by one in tree order (a component's are its subtree's, a
\* fragment's its start anchor, its children's, its end anchor, a single
\* node's the one node, inserted once), all in the given container, and
\* afterwards they stand in this order right before the anchor, the other host
\* nodes keeping their order.
MoveRelocates ==
    pc = "CallMove" =>
        LET own == OwnHosts(Before, Moved)
            at == IF MoveAnchor = 0 THEN Len(Others) + 1 ELSE IndexOf(Others, MoveAnchor)
            ul == w.vn[w.root].el
        IN  /\ ~w.err /\ ~w.thrown
            /\ \A k \in 2..Len(MoveLog) : MoveLog[k][1] \in {"move", "insert"}
            /\ \A k \in 2..Len(MoveLog) : MoveLog[k][1] = "insert" => MoveLog[k][3] = ul
            /\ Inserted = own
            /\ w.kids[ul] = SubSeq(Others, 1, at - 1) \o own \o SubSeq(Others, at, Len(Others))
            /\ \A el \in 1..Len(w.kids) : el # ul => w.kids[el] = Before.kids[el]
            /\ Len(w.kids) = Len(Before.kids)
            /\ w.kind = Before.kind /\ w.text = Before.text /\ w.attrs = Before.attrs
            /\ w.vn = Before.vn /\ w.inst = Before.inst
            /\ Before.vn[Moved].type \in {"Element", "Text"} => Len(Inserted) = 1

\* a fragment that holds a component with a fragment root and a fragment has
\* been moved from the end of the list to the front of the other item
MoveRelocatesWitness ==
    /\ pc = "CallMove"
    /\ Before.vn[Moved].type = "Fragment"
    /\ Len(Inserted) = 9
    /\ MoveAnchor # 0
    /\ w.kids[w.vn[w.root].el] # Before.kids[w.vn[w.root].el]
    /\ Moved = w.vn[w.root].children[NumMoveItems]
    /\ w.kids[w.vn[w.root].el][1] = w.vn[Moved].el


(* ------------------------- unmount on its own -------------------------- *)

\* the children of the <ul>
NumGoneItems == 2

\* what a child of the <ul> is: as for move, or a <div> that holds a span, a
\* fragment of a text and a component whose root is a fragment
GoneKinds == MoveKinds \cup {"box"}

GoneItem(key, kind) ==
    IF kind = "box"
    THEN Tpl("Element", "div", key, EmptyProps, "array", 0,
             <<KeyedChild(0, key), MoveFragment(0, <<MoveText(key)>>), MoveComponent(0, "Pair")>>,
             0, "no", <<>>, 0)
    ELSE MoveItem(key, kind)

GoneList(kinds) ==
    Tpl("Element", "ul", 0, EmptyProps, "array", 0,
        AsSeq([i \in 1..NumGoneItems |-> GoneItem(i, kinds[i])]), 0, "no", <<>>, 0)

InitGone ==
    /\ inp \in [kinds : [1..NumGoneItems -> GoneKinds], compiled : BOOLEAN]
    /\ w = World0(TRUE, inp.compiled)
    /\ pc = "start"
    /\ hist = <<>>

\* the list is mounted
MountGone ==
    /\ pc = "start"
    /\ w' = RenderTpl(w, GoneList(inp.kinds))
    /\ pc' = "MountGone"
    /\ hist' = <<w>>
    /\ UNCHANGED inp

\* unmount(vnode, null, null, doRemove) for a child of the <ul>
CallUnmount ==
    /\ pc = "MountGone"
    /\ \E i \in 1..NumGoneItems, doRemove \in BOOLEAN :
          w' = doFlushPostFlushCbs(
                   doUnmount(Log(w, "unmountCall", w.vn[w.root].children[i],
                               IF doRemove THEN 1 ELSE 0),
                           w.vn[w.root].children[i], 0, doRemove, FALSE))
    /\ pc' = "CallUnmount"
    /\ hist' = <<w>>
    /\ UNCHANGED inp

NextGone == MountGone \/ CallUnmount

SpecGone == InitGone /\ [][NextGone]_vars

\* what the last call of unmount logged, the call first
GoneLog == SubSeq(w.log, Len(Before.log) + 1, Len(w.log))

Gone == GoneLog[1][2]

\* the host nodes the last call of unmount removed, in order
Removed ==
    LET rem == SelectSeq(GoneLog, LAMBDA e : e[1] = "remove")
    IN  [k \in 1..Len(rem) |-> rem[k][2]]

RECURSIVE Below(_, _)
\* the host nodes under a host node
Below(x, el) ==
    UNION {{x.kids[el][k]} \cup Below(x, x.kids[el][k]) : k \in 1..Len(x.kids[el])}

\* C36: unmount with doRemove removes the host nodes of the vnode that are
\* children of its container and no others, each once: an element's el, a
\* fragment's start anchor, end anchor and every host node between them, a
\* component's subtree's; the host nodes below them stay attached to their
\* parents.  Without doRemove it removes no host node.
UnmountRemovesTop ==
    pc = "CallUnmount" =>
        LET ul == w.vn[w.root].el
            own == IF GoneLog[1][3] = 1 THEN HostNodes(Before, Gone) ELSE <<>>
        IN  /\ ~w.err /\ ~w.thrown
            /\ HostNodes(Before, Gone) = OwnHosts(Before, Gone)
            /\ Removed = own
            /\ \A k \in 1..Len(own) : w.par[own[k]] = 0
            /\ w.kids[ul] = SelectSeq(Before.kids[ul], LAMBDA el : ~Has(own, el))
            /\ \A el \in 1..Len(w.kids) : el # ul => w.kids[el] = Before.kids[el]
            /\ \A el \in 1..Len(w.kids) : ~Has(own, el) => w.par[el] = Before.par[el]
            /\ Len(w.kids) = Len(Before.kids)
            /\ \A k \in 1..Len(GoneLog) : GoneLog[k][1] \notin {"create", "insert", "move"}

\* a <div> with a span, a fragment and a component below it has been
\* unmounted with doRemove: one host remove
UnmountRemovesTopWitness ==
    /\ pc = "CallUnmount"
    /\ GoneLog[1][3] = 1
    /\ Before.vn[Gone].type = "Element"
    /\ Cardinality(Below(w, w.vn[Gone].el)) >= 8
    /\ Len(Removed) = 1
    /\ Cardinality({k \in 1..Len(GoneLog) : GoneLog[k][1] = "unmount"}) >= 6


(* ------------- stable fragments that are patched, then moved ------------ *)

\* the items of the list
NumStableItems == 2

\* most state changes of the components of the list
MaxStableChanges == 1

\* a root-level child of <template v-for :key>: a static text, a static
\* element, an element with a text binding, a component
StableChildKinds == {"text", "static", "dynamic", "comp"}

\* an item: a keyed template of two children, or a component whose root is a
\* stable fragment
StableItemKinds == (StableChildKinds \X StableChildKinds) \cup {<<"Pair">>, <<"Trio">>}

StableChild(kind, msg) ==
    CASE kind = "text" -> Tpl("Text", "", 0, EmptyProps, "text", 7, <<>>, 0, "no", <<>>, 0)
      [] kind = "static" ->
             Tpl("Element", "i", 0, EmptyProps, "text", 7, <<>>, 0, "no", <<>>, 0)
      [] kind = "dynamic" ->
             Tpl("Element", "span", 0, EmptyProps, "text", msg, <<>>, TEXT, "no", <<>>, 0)
      [] kind = "comp" ->
             Tpl("Component", "Leaf", 0, [x \in {"msg"} |-> msg], "none", 0, <<>>, PROPS, "no",
                 <<"msg">>, 0)

StableItem(key, kind, msg) ==
    IF Len(kind) = 1
    THEN Tpl("Component", kind[1], key, [x \in {"msg"} |-> msg], "none", 0, <<>>, PROPS, "block",
             <<"msg">>, 0)
    ELSE Tpl("Fragment", "", key, EmptyProps, "array", 0,
             <<StableChild(kind[1], msg), StableChild(kind[2], msg)>>, STABLE_FRAGMENT, "block",
             <<>>, 0)

\* <template v-for="i in order" :key="i">: a keyed fragment of blocks
StableList(order, kinds, msg) ==
    Tpl("Fragment", "", 0, EmptyProps, "array", 0,
        AsSeq([i \in 1..Len(order) |-> StableItem(order[i], kinds[order[i]], msg)]),
        KEYED_FRAGMENT, "untracked", <<>>, 0)

InitStable ==
    /\ inp \in [kinds : [1..NumStableItems -> StableItemKinds], dev : BOOLEAN]
    /\ w = World0(inp.dev, TRUE)
    /\ pc = "start"
    /\ hist = <<>>

\* the list is mounted in the order 1..NumStableItems
MountStable ==
    /\ pc = "start"
    /\ w' = RenderTpl(w, StableList([i \in 1..NumStableItems |-> i], inp.kinds, 0))
    /\ pc' = "MountStable"
    /\ hist' = <<w>>
    /\ UNCHANGED inp

\* the list is rendered again in the same order, the bindings changed
PatchStable ==
    /\ pc = "MountStable"
    /\ w' = RenderInWindow(w, StableList([i \in 1..NumStableItems |-> i], inp.kinds, 1))
    /\ pc' = "PatchStable"
    /\ hist' = <<w>>
    /\ UNCHANGED inp

\* state of an instance changes
TriggerStable ==
    /\ pc \in {"MountStable", "PatchStable"}
    /\ Changes(w) < MaxStableChanges
    /\ \E uid \in 1..Len(w.inst) : w' = trigger(w, uid)
    /\ pc' = "TriggerStable"
    /\ hist' = <<w>>
    /\ UNCHANGED inp

\* the scheduler flushes the queued jobs
FlushStable ==
    /\ pc = "TriggerStable"
    /\ w.queue # <<>>
    /\ w' = doFlushJobs(w)
    /\ pc' = "FlushStable"
    /\ hist' = <<w>>
    /\ UNCHANGED inp

\* the list is rendered again in the reverse order: its items are moved
ReorderStable ==
    /\ pc \in {"PatchStable", "FlushStable"}
    /\ w' = RenderInWindow(w, StableList([i \in 1..NumStableItems |-> NumStableItems + 1 - i],
                                         inp.kinds, 1))
    /\ pc' = "ReorderStable"
    /\ hist' = <<w>>
    /\ UNCHANGED inp

NextStable == MountStable \/ PatchStable \/ TriggerStable \/ FlushStable \/ ReorderStable

SpecStable == InitStable /\ [][NextStable]_vars

\* the stable fragments of the items: the item itself, or the subtree of the
\* item's component
StableFragments ==
    {IF w.vn[w.vn[w.root].children[i]].type = "Component"
     THEN w.inst[w.vn[w.vn[w.root].children[i]].component].subTree
     ELSE w.vn[w.root].children[i] : i \in 1..Len(w.vn[w.root].children)}

\* processFragment has patched the fragment f through patchBlockChildren
FastPatched(f) == \E k \in 1..Len(w.log) : w.log[k] = <<"patchBlockChildren", f, 0>>

\* C37 as stated: once processFragment has patched a stable fragment that has a
\* key or is its component's root through the dynamic children, every
\* root-level child of the new fragment has a host node, and a later move of
\* the fragment relocates all of them.
StableChildrenHaveEl ==
    pc # "start" =>
        /\ \A f \in StableFragments :
              FastPatched(f) =>
                  \A i \in 1..Len(w.vn[f].children) :
                      FirstHost(w, w.vn[f].children[i]) # 0
        /\ ~w.err

\* the root-level children that are elements or components do have a host
\* node, in their fragment's range
StableElementsHaveEl ==
    pc # "start" =>
        \A f \in StableFragments :
            FastPatched(f) =>
                \A i \in 1..Len(w.vn[f].children) :
                    w.vn[w.vn[f].children[i]].type # "Text" =>
                        /\ FirstHost(w, w.vn[f].children[i]) # 0
                        /\ w.par[FirstHost(w, w.vn[f].children[i])] = w.par[w.vn[f].el]

\* a keyed template of a static element and a bound span has been patched and
\* moved
StableElementsHaveElWitness ==
    /\ pc = "ReorderStable"
    /\ inp.kinds[1] = <<"static", "dynamic">>
    /\ \A f \in StableFragments : FastPatched(f)
    /\ \E k \in 1..Len(w.log) : w.log[k][1] = "move" /\ w.log[k][2] \in StableFragments
    /\ ~w.err


(* -------------------- render called from a hook ------------------------ *)

\* most calls of render made from outside in a run
MaxAgain == 3

\* the trees rendered from outside: a component, alone or in a <div>, a <p>,
\* or null (0)
AgainTrees == {"alone", "boxed", "plain", "null"}

AgainComponent ==
    Tpl("Component", inp.type, 0, [x \in {"msg"} |-> inp.msg], "none", 0, <<>>, 0, "no", <<>>, 0)

AgainTpl(tree) ==
    CASE tree = "alone" -> AgainComponent
      [] tree = "boxed" ->
             Tpl("Element", "div", 0, EmptyProps, "array", 0, <<AgainComponent>>, 0, "no", <<>>, 0)
      [] tree = "plain" ->
             Tpl("Element", "p", 0, EmptyProps, "text", 5, <<>>, 0, "no", <<>>, 0)

\* the component's mounted hook (Again) or beforeMount hook (Early) calls
\* render on the container, with null (msg = 0) or a <p>; a Leaf has no hook
\* that does
InitAgain ==
    /\ inp \in [type : {"Leaf", "Again", "Early"}, msg : {0, 1}]
    /\ w = World0(TRUE, FALSE)
    /\ pc = "start"
    /\ hist = <<>>

RenderCalls(x) == {k \in 1..Len(x.log) : x.log[k][1] \in {"renderCall", "renderAgain"}}

\* render(vnode, container) from outside; the log has the vnode of every call
RenderTree ==
    /\ Cardinality(RenderCalls(w)) < MaxAgain
    /\ \E tree \in AgainTrees \ {"null"} :
          LET rendered(r) == doRender(Log(r.w, "renderCall", r.id, 0), r.id)
          IN  w' = rendered(allocTree(w, AgainTpl(tree)))
    /\ pc' = "RenderTree"
    /\ hist' = <<w>>
    /\ UNCHANGED inp

\* render(null, container) from outside
RenderNull ==
    /\ Cardinality(RenderCalls(w)) < MaxAgain
    /\ w' = doRender(Log(w, "renderCall", 0, 0), 0)
    /\ pc' = "RenderNull"
    /\ hist' = <<w>>
    /\ UNCHANGED inp

NextAgain == RenderTree \/ RenderNull

SpecAgain == InitAgain /\ [][NextAgain]_vars

\* the vnode of the render call started last
LastStarted ==
    LET last == CHOOSE k \in RenderCalls(w) : \A j \in RenderCalls(w) : j <= k
    IN  w.log[last][2]

\* the container holds the vnode v (nothing if v is null) and its host nodes
\* only
Holds(v) ==
    /\ w.root = v
    /\ w.kids[Container] = IF v = 0 THEN <<>> ELSE OwnHosts(w, v)
    /\ ~w.err

\* C38 as stated: when a call of render from outside has returned,
\* container._vnode is the vnode of the render call started last, a call made
\* by a hook included, and the container's host children are that vnode's host
\* nodes.
LastRenderStands ==
    pc # "start" => Holds(LastStarted)

\* without a call of render from a hook the container holds the vnode
\* rendered last and its host nodes only
LastOuterRenderStands ==
    (pc # "start" /\ RenderCalls(w) = {k \in 1..Len(w.log) : w.log[k][1] = "renderCall"}) =>
        Holds(LastStarted)

\* three renders from outside, the last of a tree with a component, none from
\* a hook
LastOuterRenderStandsWitness ==
    /\ pc = "RenderTree"
    /\ Cardinality(RenderCalls(w)) = MaxAgain
    /\ RenderCalls(w) = {k \in 1..Len(w.log) : w.log[k][1] = "renderCall"}
    /\ \E c \in 1..Len(w.inst) : w.inst[c].isMounted /\ ~w.inst[c].isUnmounted
    /\ \E c \in 1..Len(w.inst) : w.inst[c].isUnmounted


(* ------------------- the compiler's v-for and the runtime -------------- *)

\* the constant types of an expression (ConstantTypes), lowest first
ConstantTypes == {"NOT_CONSTANT", "CAN_SKIP_PATCH", "CAN_HOIST", "CAN_STRINGIFY"}

\* the nodes v-for stands on: an element or a <slot> with the directive, or a
\* <template v-for> around one element, one <slot>, a text or several
\* children; `key` says how the key prop is given (findProp), `source` what
\* the list expression is
ForNodes ==
    {n \in [template : BOOLEAN, shape : {"element", "slot", "text", "many"},
            key : {"none", "static", "bound"}, sourceType : {"simple", "compound"},
            constType : ConstantTypes, childIsBlock : BOOLEAN] :
        /\ (~n.template) => n.shape \in {"element", "slot"}
        /\ n.shape # "element" => ~n.childIsBlock}

\* a v-for whose fragment collects dynamic children whatever its source is
transformForTracksAll(node) ==
    LET keyProp == node.key # "none"
        isStableFragment == node.sourceType = "simple" /\ node.constType # "NOT_CONSTANT"
        fragmentFlag ==
            IF isStableFragment THEN STABLE_FRAGMENT
            ELSE IF keyProp THEN KEYED_FRAGMENT ELSE UNKEYED_FRAGMENT
        needFragmentWrapper == node.shape \in {"text", "many"}
        childBlock ==
            IF node.shape = "slot"
            THEN [kind |-> "renderSlot", isBlock |-> TRUE, key |-> keyProp]
            ELSE IF needFragmentWrapper
            THEN [kind |-> "Fragment", isBlock |-> TRUE, key |-> keyProp]
            ELSE [kind |-> "element", isBlock |-> ~isStableFragment, key |-> keyProp]
    IN  [patchFlag |-> fragmentFlag, isBlock |-> TRUE, disableTracking |-> FALSE,
         child |-> childBlock]

\* transformFor: the codegen node of the v-for (the Fragment call) and the
\* block each iteration returns
transformFor(node) ==
    LET keyProp == node.key # "none"
        isStableFragment == node.sourceType = "simple" /\ node.constType # "NOT_CONSTANT"
        fragmentFlag ==
            IF isStableFragment THEN STABLE_FRAGMENT
            ELSE IF keyProp THEN KEYED_FRAGMENT ELSE UNKEYED_FRAGMENT
        needFragmentWrapper == node.shape \in {"text", "many"}
        childBlock ==
            IF node.shape = "slot"
            THEN [kind |-> "renderSlot", isBlock |-> TRUE, key |-> keyProp]
            ELSE IF needFragmentWrapper
            THEN [kind |-> "Fragment", isBlock |-> TRUE, key |-> keyProp]
            ELSE [kind |-> "element", isBlock |-> ~isStableFragment, key |-> keyProp]
    IN  [patchFlag |-> fragmentFlag, isBlock |-> TRUE, disableTracking |-> ~isStableFragment,
         child |-> childBlock]

\* what the generated render function builds for the items `list`: a static
\* key is the same for every item, a bound key is the item
ForTpl(node, list, msg) ==
    LET g == transformFor(node)
        keyOf(i) == IF node.key = "none" THEN 0 ELSE IF node.key = "static" THEN 1 ELSE list[i]
        span(i) ==
            Tpl("Element", "span", 0, EmptyProps, "text", 10 * list[i] + msg, <<>>, TEXT, "no",
                <<>>, 0)
        child(i) ==
            IF g.child.kind = "element"
            THEN Tpl("Element", "li", keyOf(i), EmptyProps, "text", 10 * list[i] + msg, <<>>, TEXT,
                     IF g.child.isBlock THEN "block" ELSE "no", <<>>, 0)
            ELSE Tpl("Fragment", "", keyOf(i), EmptyProps, "array", 0,
                     IF node.shape = "many"
                     THEN <<Tpl("Element", "i", 0, EmptyProps, "text", 7, <<>>, 0, "no", <<>>, 0),
                            span(i)>>
                     ELSE <<span(i)>>,
                     STABLE_FRAGMENT, "block", <<>>, 0)
    IN  Tpl("Fragment", "", 0, EmptyProps, "array", 0, AsSeq([i \in 1..Len(list) |-> child(i)]),
            g.patchFlag, IF g.disableTracking THEN "untracked" ELSE "block", <<>>, 0)

\* the list mounted
ForList == <<1, 2>>

\* the lists a v-for whose source is not constant is rendered with next
ForLists == {<<1, 2>>, <<2, 1>>, <<1>>}

ConstantSource == inp.node.sourceType = "simple" /\ inp.node.constType # "NOT_CONSTANT"

InitFor ==
    /\ inp \in [node : ForNodes, b : ForLists]
    /\ (inp.node.sourceType = "simple" /\ inp.node.constType # "NOT_CONSTANT") =>
           inp.b = ForList
    /\ w = World0(FALSE, TRUE)
    /\ pc = "start"
    /\ hist = <<>>

\* the render function runs and its tree is mounted
MountFor ==
    /\ pc = "start"
    /\ w' = RenderTpl(w, ForTpl(inp.node, ForList, 0))
    /\ pc' = "MountFor"
    /\ hist' = <<w>>
    /\ UNCHANGED inp

\* the render function runs again: the bindings have changed, and the list
\* too if the source is not constant
PatchFor ==
    /\ pc = "MountFor"
    /\ w' = RenderTpl(w, ForTpl(inp.node, inp.b, 1))
    /\ pc' = "PatchFor"
    /\ hist' = <<w>>
    /\ UNCHANGED inp

NextFor == MountFor \/ PatchFor

SpecFor == InitFor /\ [][NextFor]_vars

\* the texts the host shows between the anchors of the v-for fragment, the
\* static <i> elements left out
ForTexts ==
    LET region == SubSeq(w.kids[Container], 2, Len(w.kids[Container]) - 1)
        shown == SelectSeq(region, LAMBDA el : w.kind[el] \in {"li", "span"})
    IN  [k \in 1..Len(shown) |-> w.text[shown[k]]]

\* C39: the v-for fragment is flagged STABLE_FRAGMENT exactly when its source
\* is a constant expression, else KEYED_FRAGMENT if the node has a key prop and
\* UNKEYED_FRAGMENT if not.  A keyed or unkeyed fragment is a block with
\* tracking disabled whose vnode has no dynamicChildren, each iteration's child
\* is a block, and the runtime diffs it with patchChildren; a stable fragment
\* tracks, a plain element child of it is no block and is collected by the
\* fragment, and the runtime patches it through its dynamic children.
ForMeetsRuntime ==
    LET g == transformFor(inp.node)
        f == w.root
        kids == w.vn[f].children
    IN  /\ g.patchFlag = STABLE_FRAGMENT <=> ConstantSource
        /\ g.patchFlag = KEYED_FRAGMENT <=> (~ConstantSource /\ inp.node.key # "none")
        /\ g.patchFlag = UNKEYED_FRAGMENT <=> (~ConstantSource /\ inp.node.key = "none")
        /\ g.isBlock
        /\ g.disableTracking <=> ~ConstantSource
        /\ ~ConstantSource => g.child.isBlock
        /\ (ConstantSource /\ inp.node.shape = "element") => ~g.child.isBlock
        /\ pc # "start" =>
               /\ w.vn[f].patchFlag = g.patchFlag
               /\ w.vn[f].hasDyn <=> ConstantSource
               /\ ~ConstantSource =>
                      /\ w.vn[f].dyn = <<>>
                      /\ \A i \in 1..Len(kids) : w.vn[kids[i]].hasDyn
               /\ (ConstantSource /\ inp.node.shape = "element") =>
                      /\ \A i \in 1..Len(kids) : ~w.vn[kids[i]].hasDyn
                      /\ w.vn[f].dyn = kids
               /\ ~w.err /\ ~w.thrown
        /\ pc = "PatchFor" =>
               /\ (\E k \in 1..Len(w.log) : w.log[k][1] = "patchChildren" /\ w.log[k][2] = f)
                      <=> ~ConstantSource
               /\ (\E k \in 1..Len(w.log) : w.log[k] = <<"patchBlockChildren", f, 0>>)
                      <=> ConstantSource
               /\ ForTexts = [i \in 1..Len(inp.b) |-> 10 * inp.b[i] + 1]

\* a keyed v-for on an element whose codegen node was no block, reordered
ForMeetsRuntimeWitness ==
    /\ pc = "PatchFor"
    /\ inp.node.shape = "element" /\ ~inp.node.childIsBlock /\ ~inp.node.template
    /\ inp.node.key = "bound"
    /\ ~ConstantSource
    /\ inp.b = <<2, 1>>
    /\ w.vn[w.root].patchFlag = KEYED_FRAGMENT
    /\ \E k \in 1..Len(w.log) : w.log[k][1] = "move"


(* ------------------------------ renderSlot ----------------------------- *)

\* most blocks the render function around the slot outlet opens
MaxBlockDepth == 2

\* most calls of renderSlot in a run
MaxSlotCalls == 2

\* what slots[name] is: nothing, or a function, compiled (_c, wrapped by
\* withCtx) or written by hand, that returns vnodes of which `dyn` carry a
\* patch flag, returns comments only, or throws
SlotFns ==
    {[c |-> FALSE, does |-> "none", dyn |-> 0]}
        \cup [c : BOOLEAN, does : {"nodes", "comments", "throws"}, dyn : {0, 1}]

\* the block tracking state of the module: the stack of collectors, the last
\* being currentBlock; d is the slot function's _d flag
Blocks0 ==
    [blockStack |-> <<>>, d |-> TRUE, next |-> 1, out |-> <<>>, thrown |-> FALSE, log |-> <<>>]

\* openBlock(): blockStack.push(currentBlock = [])
openBlock(s) == [s EXCEPT !.blockStack = Append(@, <<>>), !.log = Append(@, <<"openBlock", 0, 0>>)]

\* a vnode with a patch flag is created: currentBlock.push(vnode) if tracking
\* is on
trackDynamic(s, tracking) ==
    IF tracking /\ s.blockStack # <<>>
    THEN [s EXCEPT !.blockStack[Len(s.blockStack)] = Append(@, s.next), !.next = @ + 1]
    ELSE [s EXCEPT !.next = @ + 1]

\* createBlock(type, props, children, patchFlag): the vnode gets currentBlock
\* as dynamicChildren, the collector is popped and the vnode joins the
\* enclosing block
createBlock(s, type, patchFlag) ==
    LET collected == IF s.blockStack = <<>> THEN <<>> ELSE s.blockStack[Len(s.blockStack)]
        popped == IF s.blockStack = <<>> THEN <<>>
                  ELSE SubSeq(s.blockStack, 1, Len(s.blockStack) - 1)
        joined == IF popped = <<>> THEN popped
                  ELSE [popped EXCEPT ![Len(popped)] = Append(@, s.next)]
    IN  [s EXCEPT !.blockStack = joined,
                  !.out = Append(@, [id |-> s.next, type |-> type, patchFlag |-> patchFlag,
                                     dynamicChildren |-> collected]),
                  !.next = @ + 1,
                  !.log = Append(@, <<"createBlock", s.next, Len(collected)>>)]

\* slot(props): the function runs; a compiled one whose _d is set runs with
\* tracking off
callSlot(s, slot) ==
    LET noted == [s EXCEPT !.log = Append(@, <<"slot", IF s.d THEN 1 ELSE 0, 0>>)]
        tracking == ~(slot.c /\ s.d)
    IN  IF slot.does = "throws" THEN [noted EXCEPT !.thrown = TRUE]
        ELSE IF slot.does = "nodes" /\ slot.dyn = 1 THEN trackDynamic(noted, tracking)
        ELSE [noted EXCEPT !.next = @ + 1]

\* fallback(): the compiler's fallback content, one node with a patch flag
callFallback(s, fallback) ==
    IF fallback = "throws" THEN [s EXCEPT !.thrown = TRUE]
    ELSE IF fallback = "returns" THEN trackDynamic(s, TRUE)
    ELSE s

\* renderSlot(slots, name, props, fallback); isCE: the rendering instance is a
\* custom element; stable: slots._ === SlotFlags.STABLE
renderSlot(s, slot, fallback, isCE, stable) ==
    LET has == slot.does # "none"
        enable(x) == IF has /\ slot.c THEN [x EXCEPT !.d = FALSE] ELSE x
        called(x) == IF has THEN callSlot(x, slot) ELSE x
        validSlotContent == slot.does = "nodes"
        children(x) ==
            IF x.thrown \/ validSlotContent THEN x ELSE callFallback(x, fallback)
        block(x) ==
            IF x.thrown THEN x
            ELSE createBlock(x, "Fragment",
                             IF validSlotContent /\ stable THEN STABLE_FRAGMENT ELSE BAIL)
        restore(x) == IF ~x.thrown /\ has /\ slot.c THEN [x EXCEPT !.d = TRUE] ELSE x
        plain(x) ==
            IF x.thrown THEN x
            ELSE [x EXCEPT !.out = Append(@, [id |-> x.next, type |-> "slot", patchFlag |-> 0,
                                              dynamicChildren |-> <<>>]),
                           !.next = @ + 1]
    IN  IF isCE THEN plain(callFallback(s, fallback))
        ELSE restore(block(children(called(openBlock(enable(s))))))

InitSlot ==
    /\ inp \in [slot : SlotFns, fallback : {"none", "returns", "throws"}, isCE : BOOLEAN,
                stable : BOOLEAN]
    /\ w = Blocks0
    /\ pc = "start"
    /\ hist = <<>>

\* the render function around the slot outlet opens a block
OpenOuter ==
    /\ ~w.thrown
    /\ Cardinality({k \in 1..Len(w.log) : w.log[k][1] = "openOuter"}) < MaxBlockDepth
    /\ w' = openBlock([w EXCEPT !.log = Append(@, <<"openOuter", 0, 0>>)])
    /\ pc' = "OpenOuter"
    /\ hist' = <<w>>
    /\ UNCHANGED inp

\* the render function calls renderSlot
RenderSlot ==
    /\ ~w.thrown
    /\ Cardinality({k \in 1..Len(w.log) : w.log[k][1] = "renderSlot"}) < MaxSlotCalls
    /\ w' = renderSlot([w EXCEPT !.log = Append(@, <<"renderSlot", 0, 0>>)], inp.slot,
                       inp.fallback, inp.isCE, inp.stable)
    /\ pc' = "RenderSlot"
    /\ hist' = <<w>>
    /\ UNCHANGED inp

\* the render function closes a block it opened
CloseOuter ==
    /\ ~w.thrown
    /\ w.blockStack # <<>>
    /\ w' = createBlock(w, "div", 0)
    /\ pc' = "CloseOuter"
    /\ hist' = <<w>>
    /\ UNCHANGED inp

NextSlot == OpenOuter \/ RenderSlot \/ CloseOuter

SpecSlot == InitSlot /\ [][NextSlot]_vars

\* what the last call of renderSlot logged
SlotLog == SubSeq(w.log, Len(Before.log) + 1, Len(w.log))

SlotCount(op) == Cardinality({k \in 1..Len(SlotLog) : SlotLog[k][1] = op})

\* the last call of renderSlot opened one block and closed it with a Fragment
\* that holds what was collected meanwhile, left the enclosing blocks as they
\* were but for the Fragment joining the innermost, and a compiled slot ran
\* with _d false and has _d true again
Balanced ==
    LET rendered == w.out[Len(w.out)]
        collected == IF inp.slot.does = "nodes" THEN inp.slot.dyn
                     ELSE IF inp.fallback = "returns" THEN 1 ELSE 0
    IN  /\ SlotCount("openBlock") = 1
        /\ SlotCount("createBlock") = 1
        /\ Len(w.blockStack) = Len(Before.blockStack)
        /\ Len(w.out) = Len(Before.out) + 1
        /\ rendered.type = "Fragment"
        /\ Len(rendered.dynamicChildren) = collected
        /\ \A k \in 1..Len(w.blockStack) :
              w.blockStack[k] = IF k = Len(w.blockStack)
                                THEN Append(Before.blockStack[k], rendered.id)
                                ELSE Before.blockStack[k]
        /\ inp.slot.c =>
               /\ w.d
               /\ \A k \in 1..Len(SlotLog) : SlotLog[k][1] = "slot" => SlotLog[k][2] = 0

\* C40 as stated: every call of renderSlot is balanced, also when the slot
\* function throws.
SlotAlwaysBalanced ==
    pc = "RenderSlot" => Balanced

\* a call of renderSlot that returns, outside a custom element, is balanced
SlotBalancedOnReturn ==
    (pc = "RenderSlot" /\ ~w.thrown /\ ~inp.isCE) => Balanced

\* the second call of renderSlot with a compiled slot that returns a node with
\* a patch flag, inside two open blocks
SlotBalancedOnReturnWitness ==
    /\ pc = "RenderSlot"
    /\ ~w.thrown /\ ~inp.isCE
    /\ inp.slot = [c |-> TRUE, does |-> "nodes", dyn |-> 1]
    /\ Len(w.blockStack) = MaxBlockDepth
    /\ Cardinality({k \in 1..Len(w.log) : w.log[k][1] = "renderSlot"}) = MaxSlotCalls
    /\ Len(w.out[Len(w.out)].dynamicChildren) = 1

====
